---- MODULE Spec2Model ----
(***************************************************************************)
(* bb-browser: the command relay (issuer side), the command executor of    *)
(* the extension, the ref table behind ref-addressed element commands and  *)
(* the extension's event-stream client, as state machines.                 *)
(*                                                                         *)
(*   Spec, SpecLive   relay waiter registry + handleCommand / sendResult   *)
(*   SpecRef          snapshot, ref table, session storage, element ops    *)
(*   SpecSSE          SSEClient connect / reconnect / disconnect           *)
(***************************************************************************)
EXTENDS Integers, Sequences, FiniteSets, TLC

(***************************************************************************)
(* Bounds of the model.                                                    *)
(***************************************************************************)
\* commands the relay issues in one run (one caller per command)
MaxCmds == 2
\* event streams one command can be pushed over (duplicate delivery)
MaxCopies == 2
\* clock steps that make up the relay timeout
Ticks == 1
\* connect() invocations of the event-stream client in flight at once
MaxConns == 2
\* reconnect timers pending at once
MaxTimers == 1
\* element identities a document can hold
MaxElems == 2
\* records the relay writes to one event stream
MaxRecords == 3
\* lines of the event-stream text given to the decoder
MaxLines == 3

(***************************************************************************)
(* Program constants.                                                      *)
(***************************************************************************)
COMMAND_TIMEOUT == 30000
SSE_RECONNECT_DELAY == 3000
SSE_MAX_RECONNECT_ATTEMPTS == 5

TickMs == COMMAND_TIMEOUT \div Ticks

Ids == 1..MaxCmds
\* ids of Results that answer no command of this relay
ForeignIds == {0}

VARIABLES
    \* ---- relay (issuer side) ----
    nextId,     \* the ids below it have been issued, one per submit call
    waiters,    \* pending-waiter registry: id -> [age]
    outcome,    \* id -> what the submit call that was given the id returned
    accepted,   \* id -> number of Results the relay accepted for it
    lastDropped,\* the relay's log: id of the Result the last step dropped
                \* (-1: none)
    \* ---- executor ----
    inflight,   \* id -> handleCommand invocations running for that command
    lastRun     \* the handleCommand invocation the last step ran: the id
                \* of its command and of its Result, whether the catch-all
                \* built the Result, the POSTs made, how its promise settled

VARIABLES
    \* ---- event-stream client (SSEClient) ----
    abortController,   \* 0 (null), or the connect() invocation whose
                       \* AbortController the field holds
    conns,             \* connect() invocation -> [pc, aborted]
    reconnectAttempts,
    isConnectedFlag,
    timers,            \* reconnect timers set and not yet fired
    startEvent,        \* the install/startup event is still to be dispatched
    lastAlarm,         \* the last keepalive alarm: was the client not
                       \* connected, was nothing else going to connect, did
                       \* its connect() start a connection attempt
    scheduled,         \* the reconnect scheduled last: [k, delay], k counted
                       \* from the last successful connection
    timerLog           \* stale: the pending reconnect timers that were set
                       \* before the last disconnect() of a listener; and
                       \* what the last step did if a timer fired in it

VARIABLES
    \* ---- ref tables (dom-service, cdp-dom-service) ----
    page,              \* the document the active tab and frame present:
                       \* locator -> the element it matches now (0: none)
    activeFrameId,     \* 0 (null, the main frame) or a child frame
    lastSnapshotRefs,  \* dom-service: the table of the legacy operations
    cdpSnapshotRefs,   \* cdp-dom-service: lastSnapshotRefs, the memory cache
    storedRefs,        \* chrome.storage.session: snapshotRefs
    startupLoad,       \* the loadRefsFromStorage() issued at worker start
    latestTable,       \* the table the last successful snapshot produced
    snapPage,          \* the document that snapshot saw
    fresh,             \* no document change and no restart since it
    lastOp             \* the operation the last step performed, and its Result

relayVars == <<nextId, waiters, outcome, accepted, lastDropped>>
execVars == <<inflight, lastRun>>
sseVars == <<abortController, conns, reconnectAttempts, isConnectedFlag,
             timers, startEvent, lastAlarm, scheduled, timerLog>>
VARIABLES
    \* ---- read loop of the event stream (SSEClient.readStream) ----
    incoming,          \* records written to the stream and not yet read
    running,           \* command id -> handlers suspended at an await
    dispatched,        \* command ids in the order handleMessage got them
    posted,            \* command ids in the order their Results were posted
    heartbeats         \* heartbeat records handled

VARIABLES
    \* ---- decoder of the event stream (SSEClient.readStream) ----
    stream,            \* the text the stream carries, character by character
    rest,              \* the part of it no read has returned yet
    reading,           \* a stream is open
    decoder,           \* readStream's locals: [buffer, event, data]
    messages           \* the (event, data) pairs given to handleMessage

VARIABLES
    \* ---- command handlers and the active tab ----
    tabUrl,            \* the scheme the active tab's URL starts with
    lastCall           \* the command the last step dispatched and its Result

VARIABLES
    \* ---- the active frame ----
    handlerFrameId,    \* command-handler's own activeFrameId (0 is null)
    chosenFrame,       \* the frame the last successful frame or frame_main
                       \* command put into effect
    lastEval           \* what the last step did and in which frame

VARIABLES
    \* ---- snapshot conversion ----
    lastRole,          \* the node getRole was called on and what it returned
    rawTree,           \* the raw tree the tree builder has put together
    converted          \* the raw tree a snapshot converted and its result

VARIABLES
    \* ---- trace recorder (background trace service) ----
    isRecording,
    recordingTabId,    \* 0 (null) or the tab being recorded
    events,            \* the event buffer
    tracePc,           \* where the startRecording or stopRecording call in
                       \* progress is suspended ("idle": no call)
    recordedEvents,    \* stopRecording's copy of the buffer
    returned,          \* what the last stopRecording call returned
    traceTab,          \* the tab: is it open, and its URL
    acceptedLog,       \* every event pushed to the buffer since the last
                       \* startRecording call and not yet returned by a
                       \* stopRecording call, in the order pushed
    startUrl,          \* the tab's URL when that call was made
    closedWith         \* the tab was closed while it was recorded and no
                       \* stopRecording was in progress, and no call was
                       \* made since: the buffer at that moment

VARIABLES
    \* ---- content script (content/trace.ts) ----
    now,               \* Date.now(), in units of TimeUnit ms
    contentRecording,  \* the content script's isRecording
    channel,           \* TRACE_EVENT messages sent and not yet delivered
    checked,           \* checkbox or radio -> its checked state
    inputDebounceTimer,
    lastInputElement,  \* 0 (null) or a field
    lastInputValue,
    inputLog,          \* the input events handled: [at, target, value, cut],
                       \* cut when stopRecording cleared the timer it set
    scrollDebounceTimer,
    scrollStartY,
    scrollY,           \* window.scrollY
    scrollLog,         \* the scroll events handled: [at, from, to, cut]
    otherRun           \* a second run of the content script in which the user
                       \* does the same at the same times but types other
                       \* characters into password fields: its lastInputValue
                       \* and the fill and press events it sent

VARIABLES
    \* ---- waits of the command handlers (command-handler.ts, dom-service.ts) ----
    waiting,           \* the waitForElement call in progress or the last one:
                       \* [pc, ref, inTable, xpath, elapsed, probes, found,
                       \* result]
    debuggerAttached,  \* debuggerAttachedTabs has the active tab
    pendingDialogs,    \* pendingDialogs' entry of the active tab: 0 for none,
                       \* or the dialog
    openDialog,        \* the dialog open on the active tab: 0 for none
    dialogsOpened,     \* the dialogs the page has opened so far
    dialogCall,        \* the dialog command in progress or the last one: [pc,
                       \* dialogResponse, pendingDialog, deleted, result]
    tabLoad            \* the navigation command in progress or the last one,
                       \* with the tab it navigates: [pc, action, status,
                       \* listener, timer, clock, completed, result]

waitVars == <<waiting>>
loadVars == <<tabLoad>>
dialogVars == <<debuggerAttached, pendingDialogs, openDialog, dialogsOpened,
                dialogCall>>
bgVars == <<waitVars, loadVars, dialogVars>>
refVars == <<page, activeFrameId, lastSnapshotRefs, cdpSnapshotRefs, storedRefs,
             startupLoad, latestTable, snapPage, fresh, lastOp>>
traceVars == <<isRecording, recordingTabId, events, tracePc, recordedEvents,
               returned, traceTab, acceptedLog, startUrl, closedWith>>
pageRest == <<checked, inputDebounceTimer, lastInputElement, lastInputValue,
              inputLog, scrollDebounceTimer, scrollStartY, scrollY, scrollLog,
              otherRun>>
pageVars == <<now, contentRecording, channel, pageRest>>
readVars == <<incoming, running, dispatched, posted, heartbeats>>
decVars == <<stream, rest, reading, decoder, messages>>
handlerVars == <<tabUrl, lastCall>>
frameVars == <<handlerFrameId, chosenFrame, lastEval>>
snapVars == <<lastRole, rawTree, converted>>
vars == <<relayVars, execVars, sseVars, refVars, readVars, decVars, handlerVars,
          frameVars, snapVars, traceVars, pageVars, bgVars>>

\* what the steps of one component leave alone
notRelay == <<sseVars, refVars, readVars, decVars, handlerVars,
    frameVars, snapVars, traceVars, pageVars, bgVars>>
notSSE == <<relayVars, execVars, refVars, readVars, decVars, handlerVars,
    frameVars, snapVars, traceVars, pageVars, bgVars>>
notRef == <<relayVars, execVars, sseVars, readVars, decVars, handlerVars,
    frameVars, snapVars, traceVars, pageVars, bgVars>>
notRead == <<relayVars, execVars, sseVars, refVars, decVars, handlerVars,
    frameVars, snapVars, traceVars, pageVars, bgVars>>
notDec == <<relayVars, execVars, sseVars, refVars, readVars, handlerVars,
    frameVars, snapVars, traceVars, pageVars, bgVars>>
notHandlers == <<relayVars, execVars, sseVars, refVars, readVars, decVars,
    frameVars, snapVars, traceVars, pageVars, bgVars>>
\* the ref component without the frame pointer of the DOM service
refRest == <<page, lastSnapshotRefs, cdpSnapshotRefs, storedRefs, startupLoad,
             latestTable, snapPage, fresh, lastOp>>
notFrame == <<relayVars, execVars, sseVars, refRest, readVars, decVars, handlerVars,
    snapVars, traceVars, pageVars, bgVars>>
notSnap == <<relayVars, execVars, sseVars, refVars, readVars, decVars, handlerVars,
    frameVars, traceVars, pageVars, bgVars>>
notTrace == <<relayVars, execVars, sseVars, refVars, readVars, decVars, handlerVars,
    frameVars, snapVars, bgVars>>
\* every component but the waits of the command handlers
notBg == <<relayVars, execVars, sseVars, refVars, readVars, decVars, handlerVars,
    frameVars, snapVars, traceVars, pageVars>>
notWait == <<notBg, loadVars, dialogVars>>
notLoad == <<notBg, waitVars, dialogVars>>
notDialog == <<notBg, waitVars, loadVars>>

(***************************************************************************)
(* Commands and Results.                                                   *)
(***************************************************************************)
\* the cases of handleCommand's switch
KnownActions ==
    {"open", "snapshot", "click", "hover", "fill", "type", "check", "uncheck",
     "close", "get", "screenshot", "wait", "press", "scroll", "back", "forward",
     "refresh", "eval", "select", "frame", "frame_main"}

\* the handlers that return a validation failure when a field is missing
FieldActions ==
    {"open", "click", "hover", "fill", "type", "check", "uncheck", "get",
     "wait", "press", "scroll", "eval", "select", "frame"}

\* the actions the model delivers: a ref command (with and without its ref)
\* and an action of the protocol's enum that the switch has no case for
SampleActions == {"click", "tab_list"}

NoResult == [id |-> 0, success |-> FALSE]

Command(id, action, wf) == [id |-> id, action |-> action, wellFormed |-> wf]

HandlerOutcomeNames == {"unknown", "invalid", "ok", "fail", "throw"}

\* what running a handler can come to: "unknown" (no case of the switch),
\* "invalid" (a required field is missing), "ok", "fail" (the handler
\* returned a failure Result), "throw" (an exception left the handler)
HandlerOutcomes(cmd) ==
    IF cmd.action \notin KnownActions THEN {"unknown"}
    ELSE IF cmd.action \in FieldActions /\ ~cmd.wellFormed THEN {"invalid"}
    ELSE {"ok", "fail", "throw"}

\* handleCommand without its catch-all: an exception leaves no Result
handleCommandNoCatch(cmd, out) ==
    CASE out = "unknown" -> [id |-> cmd.id, success |-> FALSE]
      [] out = "invalid" -> [id |-> cmd.id, success |-> FALSE]
      [] out = "ok"      -> [id |-> cmd.id, success |-> TRUE]
      [] out = "fail"    -> [id |-> cmd.id, success |-> FALSE]
      [] out = "throw"   -> NoResult

\* the Result handleCommand builds: the switch's default branch, the
\* handler's own Result, or the catch-all's failure Result
handleCommand(cmd, out) ==
    CASE out = "unknown" -> [id |-> cmd.id, success |-> FALSE]
      [] out = "invalid" -> [id |-> cmd.id, success |-> FALSE]
      [] out = "ok"      -> [id |-> cmd.id, success |-> TRUE]
      [] out = "fail"    -> [id |-> cmd.id, success |-> FALSE]
      [] out = "throw"   -> [id |-> cmd.id, success |-> FALSE]

\* the outcomes of sendResult's fetch: a 2xx answer, another status, a throw
FetchOutcomes == {"ok", "notOk", "error"}

\* how sendResult's promise settles: every path returns
sendResult(net) ==
    CASE net = "ok"    -> "resolved"
      [] net = "notOk" -> "resolved"
      [] net = "error" -> "resolved"

NoRun == [id |-> 0, caught |-> FALSE, resultId |-> 0, posts |-> 0,
          promise |-> "none"]

(***************************************************************************)
(* Relay: the waiter registry.                                             *)
(***************************************************************************)
Pending == DOMAIN waiters

Waiting == [state |-> "waiting", result |-> NoResult]

Returned(kind, r) == [state |-> kind, result |-> r]

\* a registry that keeps the waiter of an accepted Result
WaitersKeep(ws, id) == ws

\* the registry after the waiter of id is destroyed
WaitersWithout(ws, id) == [i \in (DOMAIN ws) \ {id} |-> ws[i]]

\* a timeout that destroys the waiter and tells the caller nothing
TimeoutSwallowed(id) == Waiting

\* what the caller of id receives when its deadline passes
TimeoutFailure(id) == Returned("Timeout", [id |-> id, success |-> FALSE])

\* the waiter's deadline has passed
TimeoutDue(w) == w.age >= COMMAND_TIMEOUT

\* the relay handles a posted Result: it resolves the waiter of that id, or
\* logs and drops the Result when no waiter is pending under the id
RelayOnResult(r) ==
    IF r.id \in Pending
    THEN /\ outcome' = [outcome EXCEPT ![r.id] = Returned("result", r)]
         /\ waiters' = WaitersWithout(waiters, r.id)
         /\ accepted' = [accepted EXCEPT ![r.id] = @ + 1]
         /\ lastDropped' = -1
    ELSE /\ lastDropped' = r.id
         /\ UNCHANGED <<outcome, waiters, accepted>>

InitRelay ==
    /\ nextId = 1
    /\ waiters = <<>>
    /\ outcome = [i \in Ids |-> [state |-> "idle", result |-> NoResult]]
    /\ accepted = [i \in Ids |-> 0]
    /\ lastDropped = -1
    /\ inflight = [i \in Ids |-> 0]
    /\ lastRun = NoRun

\* submit: a fresh id, a waiter under it, the command pushed over the n
\* event streams attached at that moment (none when the transport is down);
\* every stream that carries it starts a handleCommand in the executor
RelaySubmit(n) ==
    /\ nextId \in Ids
    /\ nextId \notin Pending
    /\ waiters' = waiters @@ (nextId :> [age |-> 0])
    /\ outcome' = [outcome EXCEPT ![nextId] = Waiting]
    /\ inflight' = [inflight EXCEPT ![nextId] = n]
    /\ nextId' = nextId + 1
    /\ lastDropped' = -1
    /\ lastRun' = NoRun
    /\ UNCHANGED <<accepted, notRelay>>

\* one handleCommand invocation, from the switch to the return of
\* sendResult; a POST that is answered was handled by the relay
HandleCommand(id, action, wf, out, net) ==
    /\ inflight[id] > 0
    /\ out \in HandlerOutcomes(Command(id, action, wf))
    /\ LET r == handleCommand(Command(id, action, wf), out) IN
         /\ inflight' = [inflight EXCEPT ![id] = @ - 1]
         /\ IF r = NoResult
            THEN /\ lastRun' = [id |-> id, caught |-> FALSE,
                                resultId |-> r.id, posts |-> 0,
                                promise |-> "rejected"]
                 /\ lastDropped' = -1
                 /\ UNCHANGED <<nextId, waiters, outcome, accepted>>
            ELSE /\ lastRun' = [id |-> id, caught |-> (out = "throw"),
                                resultId |-> r.id, posts |-> 1,
                                promise |-> sendResult(net)]
                 /\ IF net = "ok"
                    THEN RelayOnResult(r) /\ UNCHANGED nextId
                    ELSE /\ lastDropped' = -1
                         /\ UNCHANGED <<nextId, waiters, outcome, accepted>>
    /\ UNCHANGED notRelay

\* a Result arrives whose id the relay never issued
RelayOrphan(id, ok) ==
    /\ RelayOnResult([id |-> id, success |-> ok])
    /\ lastRun' = NoRun
    /\ UNCHANGED <<nextId, inflight, notRelay>>

\* time passes for every pending waiter; a due timeout fires first
Tick ==
    /\ Pending # {}
    /\ \A i \in Pending : ~TimeoutDue(waiters[i])
    /\ waiters' = [i \in Pending |-> [waiters[i] EXCEPT !.age = @ + TickMs]]
    /\ lastDropped' = -1
    /\ lastRun' = NoRun
    /\ UNCHANGED <<nextId, outcome, accepted, inflight, notRelay>>

\* the waiter's deadline: the caller gets a Timeout failure
RelayTimeout(id) ==
    /\ id \in Pending
    /\ TimeoutDue(waiters[id])
    /\ outcome' = [outcome EXCEPT ![id] = TimeoutFailure(id)]
    /\ waiters' = WaitersWithout(waiters, id)
    /\ lastDropped' = -1
    /\ lastRun' = NoRun
    /\ UNCHANGED <<nextId, accepted, inflight, notRelay>>

(***************************************************************************)
(* Event-stream client: SSEClient and the listeners that call it.          *)
(***************************************************************************)
Slots == 1..MaxConns

\* a connect() invocation: "free" (none), "url" (awaiting getUpstreamUrl),
\* "fetch" (awaiting fetch under its AbortController), "read" (in
\* readStream), "ended" (returned; the field still holds its controller)
FreeConn == [pc |-> "free", aborted |-> FALSE]

RECURSIVE Pow2(_)
Pow2(n) == IF n = 0 THEN 1 ELSE 2 * Pow2(n - 1)

\* a backoff that grows by the base delay per attempt
ReconnectDelayLinear(attempt) == SSE_RECONNECT_DELAY * attempt

\* reconnect: the delay of the attempt with that number
ReconnectDelay(attempt) == SSE_RECONNECT_DELAY * Pow2(attempt - 1)

\* a catch block that reconnects on every error
CatchReconnectsAlways(errorName) == TRUE

\* the catch blocks of connect and readStream: an AbortError returns, any
\* other error marks the client disconnected and calls reconnect()
CatchReconnects(errorName) == errorName # "AbortError"

\* connect's guard: it goes on only when the field holds no controller
ConnectStarts(ac) == ac = 0

HasFree(cs) == \E s \in Slots : cs[s].pc = "free"

FreeSlot(cs) == CHOOSE s \in Slots :
                   /\ cs[s].pc = "free"
                   /\ \A u \in Slots : cs[u].pc = "free" => s <= u

\* the invocations after connect() is called with the field holding ac:
\* a no-op ("Already connected"), or a new invocation awaiting the URL
ConnectConns(cs, ac) ==
    IF ConnectStarts(ac)
    THEN [cs EXCEPT ![FreeSlot(cs)] = [pc |-> "url", aborted |-> FALSE]]
    ELSE cs

\* the controller of invocation s is no longer held by the field
Released(cs, s) ==
    IF s = 0 THEN cs
    ELSE IF cs[s].pc = "ended" THEN [cs EXCEPT ![s] = FreeConn]
    ELSE cs

\* the invocations after disconnect(): the held controller is aborted
DisconnectConns(cs, ac) ==
    IF ac = 0 THEN cs
    ELSE IF cs[ac].pc = "ended" THEN [cs EXCEPT ![ac] = FreeConn]
    ELSE [cs EXCEPT ![ac].aborted = TRUE]

\* isConnectedFlag after disconnect()
DisconnectFlag(flag, ac) == IF ac = 0 THEN flag ELSE FALSE

\* invocation s returns
Return(cs, s, ac) ==
    [cs EXCEPT ![s] = IF ac = s THEN [pc |-> "ended", aborted |-> FALSE]
                      ELSE FreeConn]

\* the event streams that are open or being opened
OpenStreams == {s \in Slots : conns[s].pc \in {"fetch", "read"} /\ ~conns[s].aborted}

\* no connect() invocation is running and no reconnect timer is pending
Quiet == timers = 0 /\ \A s \in Slots : conns[s].pc \in {"free", "ended"}

NoTimerFired(stale) ==
    [stale |-> stale, fired |-> FALSE, wasStale |-> FALSE, aborted |-> FALSE,
     started |-> FALSE]

InitSSE ==
    \* the worker has started: its top-level connect() awaits the URL
    /\ abortController = 0
    /\ conns = [s \in Slots |-> IF s = 1 THEN [pc |-> "url", aborted |-> FALSE]
                                ELSE FreeConn]
    /\ reconnectAttempts = 0
    /\ isConnectedFlag = FALSE
    /\ timers = 0
    /\ startEvent = TRUE
    /\ lastAlarm = [notConnected |-> FALSE, quiet |-> FALSE, started |-> FALSE]
    /\ scheduled = [k |-> 0, delay |-> 0]
    /\ timerLog = NoTimerFired(0)

\* no timer fired in this step
KeepTimerLog == timerLog' = NoTimerFired(timerLog.stale)

\* reconnect(): up to the cap, count the attempt and set its timer
Reconnect ==
    IF reconnectAttempts >= SSE_MAX_RECONNECT_ATTEMPTS
    THEN UNCHANGED <<reconnectAttempts, timers, scheduled>>
    ELSE /\ timers < MaxTimers
         /\ reconnectAttempts' = reconnectAttempts + 1
         /\ timers' = timers + 1
         /\ scheduled' = [k |-> scheduled.k + 1,
                          delay |-> ReconnectDelay(reconnectAttempts + 1)]

\* connect(), called from a listener, up to its first await
ConnectCalled ==
    /\ ~ConnectStarts(abortController) \/ HasFree(conns)
    /\ conns' = ConnectConns(conns, abortController)
    /\ UNCHANGED <<abortController, reconnectAttempts, isConnectedFlag,
                   timers, scheduled>>

\* disconnect(); connect();
DisconnectThenConnect ==
    LET cs == DisconnectConns(conns, abortController) IN
    /\ HasFree(cs)
    /\ conns' = ConnectConns(cs, 0)
    /\ abortController' = 0
    /\ isConnectedFlag' = DisconnectFlag(isConnectedFlag, abortController)

\* chrome.runtime.onInstalled
OnInstalled ==
    /\ startEvent
    /\ startEvent' = FALSE
    /\ ConnectCalled
    /\ KeepTimerLog
    /\ UNCHANGED <<lastAlarm, notSSE>>

\* chrome.runtime.onStartup
OnStartup ==
    /\ startEvent
    /\ startEvent' = FALSE
    /\ ConnectCalled
    /\ KeepTimerLog
    /\ UNCHANGED <<lastAlarm, notSSE>>

\* chrome.alarms.onAlarm: the keepalive alarm reconnects a client that is
\* not connected
OnAlarm ==
    /\ IF isConnectedFlag
       THEN /\ lastAlarm' = [notConnected |-> FALSE, quiet |-> FALSE,
                             started |-> FALSE]
            /\ UNCHANGED <<abortController, conns, reconnectAttempts,
                           isConnectedFlag, timers, scheduled>>
       ELSE /\ lastAlarm' = [notConnected |-> TRUE, quiet |-> Quiet,
                             started |-> ConnectStarts(abortController)]
            /\ ConnectCalled
    /\ KeepTimerLog
    /\ UNCHANGED <<startEvent, notSSE>>

\* chrome.storage.onChanged for upstreamUrl
OnUpstreamChanged ==
    /\ DisconnectThenConnect
    /\ timerLog' = NoTimerFired(timers)
    /\ UNCHANGED <<reconnectAttempts, timers, scheduled, startEvent,
                   lastAlarm, notSSE>>

\* a reconnect timer fires, one set before the last disconnect() of a
\* listener or one set after it
ReconnectTimer(stale) ==
    /\ timers > 0
    /\ IF stale THEN timerLog.stale > 0 ELSE timers > timerLog.stale
    /\ timers' = timers - 1
    /\ DisconnectThenConnect
    /\ timerLog' = [stale |-> IF stale THEN timerLog.stale - 1 ELSE timerLog.stale,
                    fired |-> TRUE, wasStale |-> stale,
                    aborted |-> /\ abortController # 0
                                /\ conns[abortController].pc \in {"fetch", "read"}
                                /\ ~conns[abortController].aborted,
                    started |-> \E c \in Slots :
                                   conns'[c].pc = "url" /\ conns[c].pc # "url"]
    /\ UNCHANGED <<reconnectAttempts, scheduled, startEvent, lastAlarm, notSSE>>

\* connect: getUpstreamUrl resolved; a new AbortController goes into the
\* field and the fetch of the stream is issued
UrlResolved(s) ==
    /\ conns[s].pc = "url"
    /\ KeepTimerLog
    /\ abortController' = s
    /\ conns' = [Released(conns, IF abortController = s THEN 0 ELSE abortController)
                   EXCEPT ![s] = [pc |-> "fetch", aborted |-> FALSE]]
    /\ UNCHANGED <<reconnectAttempts, isConnectedFlag, timers, startEvent,
                   lastAlarm, scheduled, notSSE>>

\* connect: the fetch answered with a stream
FetchOk(s) ==
    /\ conns[s].pc = "fetch"
    /\ KeepTimerLog
    /\ ~conns[s].aborted
    /\ isConnectedFlag' = TRUE
    /\ reconnectAttempts' = 0
    /\ scheduled' = [k |-> 0, delay |-> 0]
    /\ conns' = [conns EXCEPT ![s].pc = "read"]
    /\ UNCHANGED <<abortController, timers, startEvent, lastAlarm, notSSE>>

\* connect: the fetch failed (network error, status not ok, no body)
FetchFailed(s) ==
    /\ conns[s].pc = "fetch"
    /\ KeepTimerLog
    /\ ~conns[s].aborted
    /\ IF CatchReconnects("Error")
       THEN isConnectedFlag' = FALSE /\ Reconnect
       ELSE UNCHANGED <<isConnectedFlag, reconnectAttempts, timers, scheduled>>
    /\ conns' = Return(conns, s, abortController)
    /\ UNCHANGED <<abortController, startEvent, lastAlarm, notSSE>>

\* readStream: the stream ended (done) or reading it failed
StreamEnded(s) ==
    /\ conns[s].pc = "read"
    /\ KeepTimerLog
    /\ ~conns[s].aborted
    /\ isConnectedFlag' = FALSE
    /\ Reconnect
    /\ conns' = Return(conns, s, abortController)
    /\ UNCHANGED <<abortController, startEvent, lastAlarm, notSSE>>

\* connect / readStream: the AbortError of an aborted controller
Aborted(s) ==
    /\ conns[s].pc \in {"fetch", "read"}
    /\ KeepTimerLog
    /\ conns[s].aborted
    /\ IF CatchReconnects("AbortError")
       THEN isConnectedFlag' = FALSE /\ Reconnect
       ELSE UNCHANGED <<isConnectedFlag, reconnectAttempts, timers, scheduled>>
    /\ conns' = [conns EXCEPT ![s] = FreeConn]
    /\ UNCHANGED <<abortController, startEvent, lastAlarm, notSSE>>

NextSSE ==
    \/ OnInstalled
    \/ OnStartup
    \/ OnAlarm
    \/ OnUpstreamChanged
    \/ \E stale \in BOOLEAN : ReconnectTimer(stale)
    \/ \E s \in Slots : UrlResolved(s)
    \/ \E s \in Slots : FetchOk(s)
    \/ \E s \in Slots : FetchFailed(s)
    \/ \E s \in Slots : StreamEnded(s)
    \/ \E s \in Slots : Aborted(s)

(***************************************************************************)
(* Ref tables: getSnapshot, getRefInfo and the ref-addressed operations of *)
(* dom-service (legacy) and cdp-dom-service.                               *)
(***************************************************************************)
\* the locators a snapshot can store, in document order
XPathList == <<"/html/body/a", "/html/body/button">>
XPaths == {XPathList[i] : i \in DOMAIN XPathList}
Elems == 1..MaxElems

\* documents: each locator matches one element or none, and two locators
\* never match the same element
Pages == {p \in [XPaths -> {0} \cup Elems] :
            \A x, y \in XPaths : (x # y /\ p[x] # 0) => p[x] # p[y]}
BlankPage == [x \in XPaths |-> 0]

\* String(highlightIndex) of the index-th highlighted element
DigitChars == <<"0", "1", "2", "3", "4", "5", "6", "7", "8", "9">>
RefIdOf(index) == <<DigitChars[index + 1]>>

\* a ref as the caller writes it, character by character; the member name
\* stands for any key a plain object inherits
SampleRefs == {<<"0">>, <<"@", "0">>, <<"1">>, <<"constructor">>}
ObjectPrototypeKeys == {<<"constructor">>}

RefInfo(xpath) == [kind |-> "ref", xpath |-> xpath]
\* a member of Object.prototype: truthy, and its xpath field is undefined
InheritedMember == [kind |-> "inherited", xpath |-> "undefined"]
NullRef == [kind |-> "null", xpath |-> ""]
EmptyTable == [k \in {} |-> NullRef]

\* convertToFullTree / convertToAccessibilityTree: one ref per highlighted
\* element, keyed by its index
BuildRefs(p) ==
    LET shown == SelectSeq(XPathList, LAMBDA x : p[x] # 0) IN
    [k \in {RefIdOf(i - 1) : i \in DOMAIN shown} |->
        RefInfo(shown[CHOOSE i \in DOMAIN shown : RefIdOf(i - 1) = k])]

\* cdp-dom-service getSnapshot: the refs copied field by field
ConvertRefs(refs) == [k \in DOMAIN refs |-> RefInfo(refs[k].xpath)]

\* ref.startsWith('@') ? ref.slice(1) : ref
StripAt(ref) == IF ref # <<>> /\ Head(ref) = "@" THEN Tail(ref) ELSE ref

\* lastSnapshotRefs[refId] || null, on a plain object
PropertyOrNull(table, key) ==
    IF key \in DOMAIN table THEN table[key]
    ELSE IF key \in ObjectPrototypeKeys THEN InheritedMember
    ELSE NullRef

\* dom-service getRefInfo
getRefInfo(table, ref) == PropertyOrNull(table, StripAt(ref))

NoStored == [present |-> FALSE, refs |-> EmptyTable]
Stored(refs) == [present |-> TRUE, refs |-> refs]

\* loadRefsFromStorage: the memory cache after a read that returned st
LoadedRefs(memory, st) == IF st.present THEN st.refs ELSE memory

\* cdp-dom-service getRefInfo: the memory cache after the lookup, which
\* reloads an empty cache from storage when the ref misses
cdpRefsAfterLookup(memory, st, ref) ==
    IF PropertyOrNull(memory, StripAt(ref)).kind # "null" THEN memory
    ELSE IF DOMAIN memory = {} THEN LoadedRefs(memory, st)
    ELSE memory

cdpGetRefInfo(memory, st, ref) ==
    PropertyOrNull(cdpRefsAfterLookup(memory, st, ref), StripAt(ref))

\* document.evaluate(xpath, ...).singleNodeValue
Evaluate(p, xpath) == IF xpath \in DOMAIN p THEN p[xpath] ELSE 0

ElementOps == {"click", "hover", "fill", "type", "check", "uncheck", "select", "get"}
SampleOps == {"click", "get"}

OpResult(status, acted) == [status |-> status, acted |-> acted]

\* dom-service operations: every one throws when the ref or the element
\* is missing
legacyOp(op, info, p) ==
    IF info.kind = "null" THEN OpResult("refNotFound", 0)
    ELSE IF Evaluate(p, info.xpath) = 0 THEN OpResult("elementNotFound", 0)
    ELSE OpResult("ok", Evaluate(p, info.xpath))

\* cdp-dom-service operations: getElementText returns '' for a missing
\* element, the others throw
cdpOp(op, info, p) ==
    IF info.kind = "null" THEN OpResult("refNotFound", 0)
    ELSE IF Evaluate(p, info.xpath) = 0
         THEN IF op = "get" THEN OpResult("ok", 0)
              ELSE OpResult("elementNotFound", 0)
    ELSE OpResult("ok", Evaluate(p, info.xpath))

\* the element a ref denoted when the last successful snapshot was taken
Denoted(ref) ==
    IF StripAt(ref) \in DOMAIN latestTable
    THEN snapPage[latestTable[StripAt(ref)].xpath]
    ELSE 0

NoOp == [service |-> "none", op |-> "none", ref |-> <<>>, status |-> "none",
         acted |-> 0, denoted |-> 0, fresh |-> FALSE, inTable |-> FALSE]

OpLog(service, op, ref, r) ==
    [service |-> service, op |-> op, ref |-> ref, status |-> r.status,
     acted |-> r.acted, denoted |-> Denoted(ref), fresh |-> fresh,
     inTable |-> StripAt(ref) \in DOMAIN latestTable]

\* the table a cdp-dom-service lookup consults
ConsultedTable ==
    IF DOMAIN cdpSnapshotRefs # {} THEN cdpSnapshotRefs
    ELSE LoadedRefs(cdpSnapshotRefs, storedRefs)

InitRef ==
    \* a worker that has just started in a new browser session, on a
    \* blank tab
    /\ page = BlankPage
    /\ activeFrameId = 0
    /\ lastSnapshotRefs = EmptyTable
    /\ cdpSnapshotRefs = EmptyTable
    /\ storedRefs = NoStored
    /\ startupLoad = [pc |-> "issued", value |-> NoStored]
    /\ latestTable = EmptyTable
    /\ snapPage = BlankPage
    /\ fresh = FALSE
    /\ lastOp = NoOp

\* handleSnapshot over cdp-dom-service getSnapshot, which runs the
\* dom-service getSnapshot first; saving to session storage can fail
HandleSnapshot(built, saved) ==
    /\ built \/ saved
    /\ IF built
       THEN /\ lastSnapshotRefs' = BuildRefs(page)
            /\ cdpSnapshotRefs' = ConvertRefs(BuildRefs(page))
            /\ storedRefs' = IF saved THEN Stored(ConvertRefs(BuildRefs(page)))
                             ELSE storedRefs
            /\ latestTable' = BuildRefs(page)
            /\ snapPage' = page
            /\ fresh' = TRUE
            /\ lastOp' = [NoOp EXCEPT !.service = "cdp", !.op = "snapshot",
                                      !.status = "ok"]
       ELSE /\ lastOp' = [NoOp EXCEPT !.service = "cdp", !.op = "snapshot",
                                      !.status = "snapshotFailed"]
            /\ UNCHANGED <<lastSnapshotRefs, cdpSnapshotRefs, storedRefs,
                           latestTable, snapPage, fresh>>
    /\ UNCHANGED <<page, activeFrameId, startupLoad, notRef>>

\* a ref-addressed handler over the dom-service operations
HandleLegacyOp(op, ref) ==
    /\ lastOp' = OpLog("legacy", op, ref,
                       legacyOp(op, getRefInfo(lastSnapshotRefs, ref), page))
    /\ UNCHANGED <<page, activeFrameId, lastSnapshotRefs, cdpSnapshotRefs,
                   storedRefs, startupLoad, latestTable, snapPage, fresh, notRef>>

\* a ref-addressed handler over the cdp-dom-service operations
HandleCdpOp(op, ref) ==
    /\ cdpSnapshotRefs' = cdpRefsAfterLookup(cdpSnapshotRefs, storedRefs, ref)
    /\ lastOp' = OpLog("cdp", op, ref,
                       cdpOp(op, cdpGetRefInfo(cdpSnapshotRefs, storedRefs, ref), page))
    /\ UNCHANGED <<page, activeFrameId, lastSnapshotRefs, storedRefs,
                   startupLoad, latestTable, snapPage, fresh, notRef>>

\* handleFrame / handleFrameMain: setActiveFrameId; locators are now
\* evaluated in that frame's document
HandleFrame(f, p) ==
    /\ f # activeFrameId
    /\ activeFrameId' = f
    /\ page' = p
    /\ fresh' = FALSE
    /\ lastOp' = NoOp
    /\ UNCHANGED <<lastSnapshotRefs, cdpSnapshotRefs, storedRefs, startupLoad,
                   latestTable, snapPage, notRef>>

\* the active tab navigates, another tab becomes active, or the DOM mutates
DocumentChanged(p) ==
    /\ p # page
    /\ page' = p
    /\ fresh' = FALSE
    /\ lastOp' = NoOp
    /\ UNCHANGED <<activeFrameId, lastSnapshotRefs, cdpSnapshotRefs, storedRefs,
                   startupLoad, latestTable, snapPage, notRef>>

\* the service worker is stopped and started again: module state is
\* rebuilt, session storage stays, loadRefsFromStorage() is issued
WorkerRestart ==
    /\ startupLoad.pc = "idle"
    /\ lastSnapshotRefs' = EmptyTable
    /\ cdpSnapshotRefs' = EmptyTable
    /\ activeFrameId' = 0
    /\ startupLoad' = [pc |-> "issued", value |-> NoStored]
    /\ fresh' = FALSE
    /\ lastOp' = NoOp
    /\ UNCHANGED <<page, storedRefs, latestTable, snapPage, notRef>>

\* loadRefsFromStorage: chrome.storage.session.get answers
LoadRead ==
    /\ startupLoad.pc = "issued"
    /\ startupLoad' = [pc |-> "read", value |-> storedRefs]
    /\ lastOp' = NoOp
    /\ UNCHANGED <<page, activeFrameId, lastSnapshotRefs, cdpSnapshotRefs,
                   storedRefs, latestTable, snapPage, fresh, notRef>>

\* loadRefsFromStorage: the continuation installs what was read
LoadAssign ==
    /\ startupLoad.pc = "read"
    /\ cdpSnapshotRefs' = LoadedRefs(cdpSnapshotRefs, startupLoad.value)
    /\ startupLoad' = [pc |-> "idle", value |-> NoStored]
    /\ lastOp' = NoOp
    /\ UNCHANGED <<page, activeFrameId, lastSnapshotRefs, storedRefs,
                   latestTable, snapPage, fresh, notRef>>

NextRef ==
    \/ \E built, saved \in BOOLEAN : HandleSnapshot(built, saved)
    \/ \E op \in SampleOps, ref \in SampleRefs : HandleLegacyOp(op, ref)
    \/ \E op \in SampleOps, ref \in SampleRefs : HandleCdpOp(op, ref)
    \/ \E f \in {0, 1}, p \in Pages : HandleFrame(f, p)
    \/ \E p \in Pages : DocumentChanged(p)
    \/ WorkerRestart
    \/ LoadRead
    \/ LoadAssign

(***************************************************************************)
(* Read loop: SSEClient.readStream hands each decoded record to             *)
(* handleMessage, which starts the command handler.                        *)
(***************************************************************************)
Heartbeat == [event |-> "heartbeat", id |-> 0]
CommandRecord(id) == [event |-> "command", id |-> id]
Records == {Heartbeat} \cup {CommandRecord(i) : i \in Ids}

\* records the stream has carried so far
Carried == Len(incoming) + Len(dispatched) + heartbeats

\* a read loop that awaits handleMessage before the next record
ReadWaitsForHandler(run) == \E i \in DOMAIN run : run[i] > 0

\* readStream: handleMessage(event, data) is called without await (only
\* .catch is attached), so the loop goes on whatever the handlers do
ReadWaits(run) == FALSE

\* handler executions started for a command id
Executions(id) == Cardinality({k \in DOMAIN dispatched : dispatched[k] = id})

\* Results posted for a command id
Posts(id) == Cardinality({k \in DOMAIN posted : posted[k] = id})

InitRead ==
    /\ incoming = <<>>
    /\ running = [i \in Ids |-> 0]
    /\ dispatched = <<>>
    /\ posted = <<>>
    /\ heartbeats = 0

\* the relay writes a record to the stream; a command can be written
\* again (a second delivery of the same Command)
StreamWrite(rec) ==
    /\ Carried < MaxRecords
    /\ incoming' = Append(incoming, rec)
    /\ UNCHANGED <<running, dispatched, posted, heartbeats, notRead>>

\* readStream: the next record is complete; handleMessage switches on its
\* event type, and a command's handler runs up to its first await
ReadRecord ==
    /\ incoming # <<>>
    /\ ~ReadWaits(running)
    /\ incoming' = Tail(incoming)
    /\ IF Head(incoming).event = "command"
       THEN /\ running' = [running EXCEPT ![Head(incoming).id] = @ + 1]
            /\ dispatched' = Append(dispatched, Head(incoming).id)
            /\ UNCHANGED heartbeats
       ELSE /\ heartbeats' = heartbeats + 1
            /\ UNCHANGED <<running, dispatched>>
    /\ UNCHANGED <<posted, notRead>>

\* a suspended handler resumes, handleCommand builds the Result and
\* sendResult posts it
HandlerReturns(id) ==
    /\ running[id] > 0
    /\ running' = [running EXCEPT ![id] = @ - 1]
    /\ posted' = Append(posted, id)
    /\ UNCHANGED <<incoming, dispatched, heartbeats, notRead>>

NextRead ==
    \/ \E rec \in Records : StreamWrite(rec)
    \/ ReadRecord
    \/ \E id \in Ids : HandlerReturns(id)

(***************************************************************************)
(* Decoder: SSEClient.readStream turns the chunks a read returns into      *)
(* (event, data) messages.  Text is a sequence of one-character strings.   *)
(***************************************************************************)
LF == "\n"
CR == "\r"
WhiteSpace == {" ", CR, LF, "\t"}

EventPrefix == <<"e", "v", "e", "n", "t", ":">>
DataPrefix == <<"d", "a", "t", "a", ":">>

\* the lines a stream is made of: a field line of each kind (the data
\* line with a space after the colon) and the blank line
SampleLines == {EventPrefix \o <<"c">>, DataPrefix \o <<" ", "x">>, <<>>}
LineEnds == {<<LF>>, <<CR, LF>>}

RECURSIVE TextsOf(_)
TextsOf(n) ==
    IF n = 0 THEN {<<>>}
    ELSE TextsOf(n - 1) \cup
         {t \o l \o e : t \in TextsOf(n - 1), l \in SampleLines, e \in LineEnds}

\* the streams: up to MaxLines terminated lines
Streams == TextsOf(MaxLines) \ {<<>>}

\* str.split('\n')
RECURSIVE SplitLF(_)
SplitLF(str) ==
    IF \A i \in DOMAIN str : str[i] # LF THEN <<str>>
    ELSE LET i == CHOOSE j \in DOMAIN str :
                     str[j] = LF /\ \A k \in 1..(j - 1) : str[k] # LF
         IN <<SubSeq(str, 1, i - 1)>> \o SplitLF(SubSeq(str, i + 1, Len(str)))

RECURSIVE TrimStart(_)
TrimStart(str) ==
    IF str # <<>> /\ Head(str) \in WhiteSpace THEN TrimStart(Tail(str)) ELSE str

RECURSIVE TrimEnd(_)
TrimEnd(str) ==
    IF str # <<>> /\ str[Len(str)] \in WhiteSpace
    THEN TrimEnd(SubSeq(str, 1, Len(str) - 1))
    ELSE str

\* str.trim()
Trim(str) == TrimEnd(TrimStart(str))

\* str.startsWith(prefix)
StartsWith(str, prefix) ==
    Len(str) >= Len(prefix) /\ SubSeq(str, 1, Len(prefix)) = prefix

\* str.substring(n)
Substring(str, n) == SubSeq(str, n + 1, Len(str))

\* a loop that starts every read with an empty buffer
RemainderDropped(lines) == <<>>

\* buffer = lines.pop() || ''
Remainder(lines) == lines[Len(lines)]

NewDecoder == [buffer |-> <<>>, event |-> <<>>, data |-> <<>>]

\* the body of `for (const line of lines)`: d is [dec, out], the locals
\* and the messages dispatched so far
ProcessLine(d, line) ==
    LET trimmedLine == Trim(line) IN
    IF StartsWith(trimmedLine, EventPrefix)
    THEN [d EXCEPT !.dec.event = Trim(Substring(trimmedLine, 6))]
    ELSE IF StartsWith(trimmedLine, DataPrefix)
    THEN [d EXCEPT !.dec.data = Trim(Substring(trimmedLine, 5))]
    ELSE IF trimmedLine = <<>> /\ d.dec.event # <<>> /\ d.dec.data # <<>>
    THEN [dec |-> [d.dec EXCEPT !.event = <<>>, !.data = <<>>],
          out |-> Append(d.out, <<d.dec.event, d.dec.data>>)]
    ELSE d

RECURSIVE ProcessLines(_, _)
ProcessLines(d, lines) ==
    IF lines = <<>> THEN d
    ELSE ProcessLines(ProcessLine(d, Head(lines)), Tail(lines))

\* one turn of the read loop on the chunk a read returned
ProcessChunk(d, chunk) ==
    LET lines == SplitLF(d.dec.buffer \o chunk) IN
    ProcessLines([d EXCEPT !.dec.buffer = Remainder(lines)],
                 SubSeq(lines, 1, Len(lines) - 1))

\* the messages of a stream that one read returns whole
Unsplit(text) == ProcessChunk([dec |-> NewDecoder, out |-> <<>>], text).out

InitDec ==
    /\ stream = <<>>
    /\ rest = <<>>
    /\ reading = FALSE
    /\ decoder = NewDecoder
    /\ messages = <<>>

\* connect: the fetch answered, readStream starts on the stream
StreamOpens(text) ==
    /\ ~reading
    /\ stream = <<>>
    /\ stream' = text
    /\ rest' = text
    /\ reading' = TRUE
    /\ decoder' = NewDecoder
    /\ messages' = <<>>
    /\ UNCHANGED notDec

\* readStream: reader.read() returns the next n characters
ReadChunk(n) ==
    /\ reading
    /\ n \in 1..Len(rest)
    /\ LET d == ProcessChunk([dec |-> decoder, out |-> messages], SubSeq(rest, 1, n)) IN
         /\ decoder' = d.dec
         /\ messages' = d.out
    /\ rest' = Substring(rest, n)
    /\ UNCHANGED <<stream, reading, notDec>>

\* readStream: reader.read() returns done
StreamDone ==
    /\ reading
    /\ rest = <<>>
    /\ reading' = FALSE
    /\ UNCHANGED <<stream, rest, decoder, messages, notDec>>

\* the longest stream
MaxStreamLen == MaxLines * 10

NextDec ==
    \/ \E text \in Streams : StreamOpens(text)
    \/ \E n \in 1..MaxStreamLen : ReadChunk(n)
    \/ StreamDone

\* the field lines of a record: an event line, a data line, or both
RecordFields ==
    {<<EventPrefix \o <<"c">>>>, <<DataPrefix \o <<" ", "x">>>>,
     <<EventPrefix \o <<"c">>, DataPrefix \o <<" ", "x">>>>}

RECURSIVE Terminated(_)
Terminated(lines) ==
    IF lines = <<>> THEN <<>> ELSE Head(lines) \o <<LF>> \o Terminated(Tail(lines))

\* the streams of two records, each ended by a blank line
RecordStreams ==
    {Terminated(r1 \o <<<<>>>> \o r2 \o <<<<>>>>) : r1 \in RecordFields, r2 \in RecordFields}

NextRecords ==
    \/ \E text \in RecordStreams : StreamOpens(text)
    \/ \E n \in 1..MaxStreamLen : ReadChunk(n)
    \/ StreamDone

(***************************************************************************)
(* Command handlers: routing on the action, the restricted-page test and   *)
(* what each handler does to the page of the active tab.                   *)
(***************************************************************************)
\* the closed action enum of the protocol
ActionType ==
    {"open", "snapshot", "click", "hover", "fill", "type", "check", "uncheck",
     "select", "get", "screenshot", "close", "wait", "press", "scroll", "back",
     "forward", "refresh", "eval", "tab_list", "tab_new", "tab_select",
     "tab_close", "frame", "frame_main", "dialog", "network", "console",
     "errors", "trace"}

\* an action string outside the enum
ForeignAction == "bogus"

\* the commands that touch the DOM of the active tab (get: text, wait:
\* for an element)
DomActions ==
    {"snapshot", "click", "hover", "fill", "type", "check", "uncheck", "select",
     "get", "wait", "press", "scroll", "eval", "frame"}

\* of these, the ones that resolve a ref first
RefActions ==
    {"click", "hover", "fill", "type", "check", "uncheck", "select", "get", "wait"}

\* the handlers that test the URL of the active tab before they go on
GuardedActions == {"snapshot", "press", "eval"}

UrlSchemes == {"https://", "chrome://", "about:", "chrome-extension://"}

\* url.startsWith('chrome://') || url.startsWith('about:') ||
\* url.startsWith('chrome-extension://')
IsRestricted(url) == url \in {"chrome://", "about:", "chrome-extension://"}

CallResult(routed, success, error, ran) ==
    [routed |-> routed, success |-> success, error |-> error, ran |-> ran]

\* a handler of a DOM-touching command: refKnown says whether getRefInfo
\* finds the ref, works whether the page script does its job; the browser
\* refuses to run a script in a page of a restricted scheme
DomHandler(action, url, refKnown, works) ==
    IF action \in GuardedActions /\ IsRestricted(url)
    THEN CallResult(TRUE, FALSE, "RestrictedPage", FALSE)
    ELSE IF action \in RefActions /\ ~refKnown
    THEN CallResult(TRUE, FALSE, "RefNotFound", FALSE)
    ELSE IF IsRestricted(url)
    THEN CallResult(TRUE, FALSE, "BrowserRefused", FALSE)
    ELSE IF works THEN CallResult(TRUE, TRUE, "", TRUE)
    ELSE CallResult(TRUE, FALSE, "HandlerError", TRUE)

\* handleCommand: the switch on command.action and the handler behind it
RouteCommand(action, url, refKnown, works) ==
    IF action \notin KnownActions
    THEN CallResult(FALSE, FALSE, "UnknownAction", FALSE)
    ELSE IF action \in DomActions THEN DomHandler(action, url, refKnown, works)
    ELSE IF works THEN CallResult(TRUE, TRUE, "", FALSE)
    ELSE CallResult(TRUE, FALSE, "HandlerError", FALSE)

NoCall == [action |-> "none", url |-> "none", result |-> CallResult(FALSE, FALSE, "", FALSE)]

InitHandlers ==
    /\ tabUrl = "https://"
    /\ lastCall = NoCall

\* the active tab shows a page of another scheme
TabNavigates(url) ==
    /\ url # tabUrl
    /\ tabUrl' = url
    /\ lastCall' = NoCall
    /\ UNCHANGED notHandlers

\* handleCommand on a well-formed command
DispatchCommand(action, refKnown, works) ==
    /\ lastCall' = [action |-> action, url |-> tabUrl,
                    result |-> RouteCommand(action, tabUrl, refKnown, works)]
    /\ UNCHANGED <<tabUrl, notHandlers>>

NextHandlers ==
    \/ \E url \in UrlSchemes : TabNavigates(url)
    \/ \E action \in ActionType \cup {ForeignAction}, refKnown, works \in BOOLEAN :
          DispatchCommand(action, refKnown, works)

(***************************************************************************)
(* The active frame: handleFrame, handleFrameMain and getFrameTarget.      *)
(***************************************************************************)
MaxFrames == 3

\* frameId 0 is the main frame; the pointer value null is written 0 as well
ChildFrames == 1..MaxFrames

\* the places where handleFrame returns a failure
FrameFailures ==
    {"MissingSelector", "NoActiveTab", "NotFound", "NoFrames", "Ambiguous",
     "NoChildFrame", "Inaccessible", "Thrown"}

\* the commands whose page script runs in the target of getFrameTarget
EvalOps == {"snapshot"} \cup RefActions

\* getFrameTarget: frameIds [activeFrameId], or the whole tab's main frame
getFrameTarget(frameId) == IF frameId # 0 THEN frameId ELSE 0

\* the pointer after handleFrame: assigned in step 5 only
FrameAfter(current, target, failure) ==
    IF failure = "none" THEN target ELSE current

NoEval == [kind |-> "none", ok |-> FALSE, frame |-> 0, before |-> 0]

InitFrame ==
    /\ handlerFrameId = 0
    /\ chosenFrame = 0
    /\ lastEval = NoEval

\* handleFrame: the lookup, the match among getAllFrames, the access test
\* and the assignment of both pointers; failure names the step that
\* returned, "none" when all passed
HandleFrameCommand(target, failure) ==
    /\ handlerFrameId' = FrameAfter(handlerFrameId, target, failure)
    /\ activeFrameId' = FrameAfter(activeFrameId, target, failure)
    /\ chosenFrame' = IF failure = "none" THEN target ELSE chosenFrame
    /\ lastEval' = [kind |-> "frame", ok |-> failure = "none",
                    frame |-> activeFrameId', before |-> activeFrameId]
    /\ UNCHANGED notFrame

HandleFrameMain ==
    /\ handlerFrameId' = 0
    /\ activeFrameId' = 0
    /\ chosenFrame' = 0
    /\ lastEval' = [kind |-> "frame_main", ok |-> TRUE, frame |-> 0,
                    before |-> activeFrameId]
    /\ UNCHANGED notFrame

\* getSnapshot, clickElement and the other element operations: the script
\* runs in getFrameTarget(tabId); found says whether the script came back
\* with a result
EvaluateInFrame(op, found) ==
    /\ lastEval' = [kind |-> op, ok |-> found,
                    frame |-> getFrameTarget(activeFrameId),
                    before |-> activeFrameId]
    /\ UNCHANGED <<handlerFrameId, activeFrameId, chosenFrame, notFrame>>

\* the browser stops the idle service worker and starts it again on the
\* next event: the module-level pointers start from null
FrameWorkerRestart ==
    /\ handlerFrameId' = 0
    /\ activeFrameId' = 0
    /\ lastEval' = NoEval
    /\ UNCHANGED <<chosenFrame, notFrame>>

NextFrame ==
    \/ \E target \in ChildFrames, failure \in FrameFailures \cup {"none"} :
          HandleFrameCommand(target, failure)
    \/ HandleFrameMain
    \/ \E op \in EvalOps, found \in BOOLEAN : EvaluateInFrame(op, found)
    \/ FrameWorkerRestart

(***************************************************************************)
(* Snapshot conversion: getRole and getInputRole.                          *)
(***************************************************************************)
\* the value of a property that is not there
Undefined == "undefined"

\* a member a plain object inherits from Object.prototype, as a value
InheritedFunction == "function Object() { [native code] }"

\* !!v
Truthy(v) == v # Undefined /\ v # ""

\* String.prototype.toLowerCase on the names that occur
ToLowerCase(str) ==
    CASE str = "A" -> "a"
      [] str = "INPUT" -> "input"
      [] str = "H1" -> "h1"
      [] str = "DIV" -> "div"
      [] str = "CHECKBOX" -> "checkbox"
      [] str = "Submit" -> "submit"
      [] OTHER -> str

\* map[key] on an object literal: an own property, else what the prototype
\* chain has under that name, else undefined
Lookup(map, key) ==
    IF key \in DOMAIN map THEN map[key]
    ELSE IF <<key>> \in ObjectPrototypeKeys THEN InheritedFunction
    ELSE Undefined

\* a || b
OrElse(a, b) == IF Truthy(a) THEN a ELSE b

inputRoleMap ==
    [type \in {"text", "password", "email", "url", "tel", "search", "number",
              "range", "checkbox", "radio", "button", "submit", "reset", "file"} |->
        CASE type \in {"text", "password", "email", "url", "tel"} -> "textbox"
          [] type = "search" -> "searchbox"
          [] type = "number" -> "spinbutton"
          [] type = "range" -> "slider"
          [] type = "checkbox" -> "checkbox"
          [] type = "radio" -> "radio"
          [] OTHER -> "button"]

\* node.attributes?.name
Attribute(node, name) ==
    IF name \in DOMAIN node.attributes THEN node.attributes[name] ELSE Undefined

getInputRole(node) ==
    LET given == Attribute(node, "type")
        type == OrElse(IF given = Undefined THEN Undefined ELSE ToLowerCase(given),
                       "text")
    IN OrElse(Lookup(inputRoleMap, type), "textbox")

roleMap(node) ==
    [tag \in {"a", "button", "input", "select", "textarea", "img", "nav", "main",
             "header", "footer", "aside", "form", "table", "ul", "ol", "li",
             "h1", "h2", "h3", "h4", "h5", "h6", "dialog", "article", "section",
             "label", "details", "summary"} |->
        CASE tag = "a" -> "link"
          [] tag \in {"button", "summary"} -> "button"
          [] tag = "input" -> getInputRole(node)
          [] tag = "select" -> "combobox"
          [] tag = "textarea" -> "textbox"
          [] tag = "img" -> "image"
          [] tag = "nav" -> "navigation"
          [] tag = "main" -> "main"
          [] tag = "header" -> "banner"
          [] tag = "footer" -> "contentinfo"
          [] tag = "aside" -> "complementary"
          [] tag = "form" -> "form"
          [] tag = "table" -> "table"
          [] tag \in {"ul", "ol"} -> "list"
          [] tag = "li" -> "listitem"
          [] tag \in {"h1", "h2", "h3", "h4", "h5", "h6"} -> "heading"
          [] tag = "dialog" -> "dialog"
          [] tag = "article" -> "article"
          [] tag = "section" -> "region"
          [] tag = "label" -> "label"
          [] OTHER -> "group"]

getRole(node) ==
    LET tagName == ToLowerCase(node.tagName)
        role == Attribute(node, "role")
    IN IF Truthy(role) THEN role
       ELSE OrElse(Lookup(roleMap(node), tagName), tagName)

\* the elements getRole is tried on
SampleTagNames ==
    DOMAIN roleMap([tagName |-> "div", attributes |-> <<>>])
        \cup {"div", "span", "constructor", "A", "INPUT", "H1", "DIV"}
SampleRoleAttrs == {Undefined, "", "tab"}
SampleTypeAttrs ==
    DOMAIN inputRoleMap \cup {Undefined, "", "date", "CHECKBOX", "Submit", "constructor"}

\* the attributes object: a name is present unless its value is undefined
AttributesOf(role, type) ==
    [name \in {n \in {"role", "type"} :
                 (n = "role" /\ role # Undefined) \/ (n = "type" /\ type # Undefined)} |->
        IF name = "role" THEN role ELSE type]

RoleNodes ==
    {[tagName |-> tag, attributes |-> AttributesOf(role, type)] :
        tag \in SampleTagNames, role \in SampleRoleAttrs, type \in SampleTypeAttrs}

NoRole == [called |-> FALSE]

InitSnap ==
    /\ lastRole = NoRole
    /\ rawTree = <<>>
    /\ converted = [mode |-> "none", map |-> <<>>]

\* getRole(node) on one element of a raw tree
GetRole ==
    /\ lastRole = NoRole
    /\ \E node \in RoleNodes :
          lastRole' = [called |-> TRUE, node |-> node, role |-> getRole(node)]
    /\ UNCHANGED <<rawTree, converted, notSnap>>

NextRole == GetRole

(***************************************************************************)
(* Snapshot conversion: the raw tree, getAccessibleName,                   *)
(* convertToAccessibilityTree and convertToFullTree.                       *)
(***************************************************************************)
MaxNodes == 3

\* the root element of the raw tree; the other nodes are numbered in
\* document order and a node's children are the later nodes that name it
\* as parent
RootId == 0

TextTemplate(text, visible) ==
    [kind |-> "text", tagName |-> "", attributes |-> <<>>, text |-> text,
     isVisible |-> visible, highlighted |-> FALSE]

ElementTemplate(tagName, visible, highlighted) ==
    [kind |-> "element", tagName |-> tagName, attributes |-> <<>>, text |-> <<>>,
     isVisible |-> visible, highlighted |-> highlighted]

\* a template placed under parent
Placed(template, parent) ==
    [kind |-> template.kind, tagName |-> template.tagName,
     attributes |-> template.attributes, text |-> template.text,
     isVisible |-> template.isVisible, highlighted |-> template.highlighted,
     parent |-> parent]

\* the nodes that can have children
ParentsIn(map) == {RootId} \cup {i \in DOMAIN map : map[i].kind = "element"}

\* elementNode.children
Children(map, id) ==
    SelectSeq([i \in 1..Len(map) |-> i], LAMBDA i : map[i].parent = id)

\* the tree builder's xpath of an element: the path from the root
RECURSIVE XPathOf(_, _)
XPathOf(map, id) ==
    IF id = RootId THEN <<RootId>> ELSE Append(XPathOf(map, map[id].parent), id)

\* elementNode.highlightIndex, -1 when it is undefined
HighlightIndex(map, id) == IF map[id].highlighted THEN id ELSE -1

\* text.trim() on the texts that occur
TrimText(text) == Trim(text)

\* texts.join(' ')
RECURSIVE JoinSpace(_)
JoinSpace(texts) ==
    IF texts = <<>> THEN <<>>
    ELSE IF Len(texts) = 1 THEN Head(texts)
    ELSE Head(texts) \o <<" ">> \o JoinSpace(Tail(texts))

Ellipsis == <<".", ".", ".">>

\* truncateText: text.slice(0, maxLength - 3) + '...'
TruncateNever(text, maxLength) == text
truncateText(text, maxLength) ==
    IF Len(text) <= maxLength THEN text
    ELSE SubSeq(text, 1, maxLength - 3) \o Ellipsis

RECURSIVE Flatten(_)
Flatten(seqs) == IF seqs = <<>> THEN <<>> ELSE Head(seqs) \o Flatten(Tail(seqs))

CollectMaxDepth == 5

\* collect(nodeId, depth) of collectTextContent: the trimmed texts below
\* the node, in document order
RECURSIVE Collect(_, _, _)
Collect(map, id, depth) ==
    IF depth > CollectMaxDepth THEN <<>>
    ELSE IF map[id].kind = "text"
    THEN IF TrimText(map[id].text) # <<>> THEN <<TrimText(map[id].text)>> ELSE <<>>
    ELSE LET kids == Children(map, id)
         IN Flatten([k \in 1..Len(kids) |-> Collect(map, kids[k], depth + 1)])

\* collectTextContent: texts.join(' ').trim()
collectTextContent(map, id) ==
    LET kids == Children(map, id)
    IN Trim(JoinSpace(Flatten([k \in 1..Len(kids) |-> Collect(map, kids[k], 0)])))

\* attrs[name] of a text-valued attribute: the empty text when it is
\* missing, both being falsy
AttrText(node, name) ==
    IF name \in DOMAIN node.attributes THEN node.attributes[name] ELSE <<>>

\* getAccessibleName; the empty text stands for undefined
NameLowerFirst(map, id) ==
    LET node == map[id]
    IN IF AttrText(node, "name") # <<>> THEN AttrText(node, "name")
       ELSE IF collectTextContent(map, id) # <<>> THEN collectTextContent(map, id)
       ELSE IF AttrText(node, "value") # <<>> THEN AttrText(node, "value")
       ELSE IF AttrText(node, "alt") # <<>> THEN AttrText(node, "alt")
       ELSE IF AttrText(node, "placeholder") # <<>> THEN AttrText(node, "placeholder")
       ELSE IF AttrText(node, "title") # <<>> THEN AttrText(node, "title")
       ELSE AttrText(node, "aria-label")
getAccessibleName(map, id) ==
    LET node == map[id]
    IN IF AttrText(node, "aria-label") # <<>> THEN AttrText(node, "aria-label")
       ELSE IF AttrText(node, "title") # <<>> THEN AttrText(node, "title")
       ELSE IF AttrText(node, "placeholder") # <<>> THEN AttrText(node, "placeholder")
       ELSE IF AttrText(node, "alt") # <<>> THEN AttrText(node, "alt")
       ELSE IF AttrText(node, "value") # <<>> THEN AttrText(node, "value")
       ELSE IF collectTextContent(map, id) # <<>> THEN collectTextContent(map, id)
       ELSE IF AttrText(node, "name") # <<>> THEN AttrText(node, "name")
       ELSE <<>>

IsPrefix(p, q) == Len(p) <= Len(q) /\ SubSeq(q, 1, Len(p)) = p

\* isAncestor: elementNode.xpath.startsWith(ancestorElement.xpath + '/')
IsAncestorNever(map, ancestorId, descendantId) == FALSE
isAncestor(map, ancestorId, descendantId) ==
    /\ map[descendantId].kind = "element"
    /\ map[ancestorId].kind = "element"
    /\ XPathOf(map, ancestorId) # <<>> /\ XPathOf(map, descendantId) # <<>>
    /\ Len(XPathOf(map, descendantId)) > Len(XPathOf(map, ancestorId))
    /\ IsPrefix(XPathOf(map, ancestorId), XPathOf(map, descendantId))

nonSemanticTags == {"span", "div", "i", "b", "em", "strong", "small", "svg", "path", "g"}
filterableTags == {"label"}

\* the nodes with a highlightIndex, sorted by it
InteractiveNodes(map) ==
    SelectSeq([i \in 1..Len(map) |-> i],
              LAMBDA i : map[i].kind = "element" /\ HighlightIndex(map, i) # -1)

FilteredAmongSurvivors(map, id) ==
    LET all == {InteractiveNodes(map)[k] : k \in DOMAIN InteractiveNodes(map)}
        others == {o \in all \ {id} :
                     /\ ~(/\ ToLowerCase(map[o].tagName) \in nonSemanticTags \cup {"a"}
                          /\ getAccessibleName(map, o) = <<>>)
                     /\ ToLowerCase(map[o].tagName) \notin filterableTags}
        tagName == ToLowerCase(map[id].tagName)
        name == getAccessibleName(map, id)
    IN \/ (tagName \in nonSemanticTags \/ tagName = "a") /\ name = <<>>
       \/ tagName \in filterableTags
       \/ \E other \in others :
             /\ ToLowerCase(map[other].tagName) \in {"a", "button"}
             /\ tagName \in nonSemanticTags
             /\ isAncestor(map, other, id)
       \/ \E other \in others :
             /\ isAncestor(map, other, id)
             /\ name # <<>> /\ getAccessibleName(map, other) # <<>>
             /\ name = getAccessibleName(map, other)

\* the four rules of the redundancy filter on one node
Filtered(map, id) ==
    LET others == {InteractiveNodes(map)[k] : k \in DOMAIN InteractiveNodes(map)} \ {id}
        tagName == ToLowerCase(map[id].tagName)
        name == getAccessibleName(map, id)
    IN \/ (tagName \in nonSemanticTags \/ tagName = "a") /\ name = <<>>
       \/ tagName \in filterableTags
       \/ \E other \in others :
             /\ ToLowerCase(map[other].tagName) \in {"a", "button"}
             /\ tagName \in nonSemanticTags
             /\ isAncestor(map, other, id)
       \/ \E other \in others :
             /\ isAncestor(map, other, id)
             /\ name # <<>> /\ getAccessibleName(map, other) # <<>>
             /\ name = getAccessibleName(map, other)

SnapshotRef(map, id) ==
    [xpath |-> XPathOf(map, id), role |-> getRole(map[id]),
     name |-> truncateText(getAccessibleName(map, id), 100),
     tagName |-> map[id].tagName]

ElementLine(map, id, depth) ==
    [indent |-> 2 * depth, node |-> id, role |-> getRole(map[id]),
     name |-> truncateText(getAccessibleName(map, id), 50),
     ref |-> HighlightIndex(map, id)]

TextLine(map, id, depth) ==
    [indent |-> 2 * depth, node |-> id, role |-> "text",
     name |-> truncateText(TrimText(map[id].text), 100), ref |-> -1]

convertToAccessibilityTree(map) ==
    LET filteredNodes == SelectSeq(InteractiveNodes(map), LAMBDA id : ~Filtered(map, id))
    IN [lines |-> [k \in DOMAIN filteredNodes |-> ElementLine(map, filteredNodes[k], 0)],
        refs |-> [id \in {filteredNodes[k] : k \in DOMAIN filteredNodes} |->
                    SnapshotRef(map, id)]]

skipTags ==
    {"script", "style", "noscript", "svg", "path", "g", "defs", "clippath",
     "lineargradient", "stop", "symbol", "use", "meta", "link", "head"}

\* traverse(nodeId, depth) of convertToFullTree: the lines it pushes
RECURSIVE TraverseBelowHidden(_, _, _)
TraverseBelowHidden(map, id, depth) ==
    IF map[id].kind = "text"
    THEN IF ~map[id].isVisible \/ TrimText(map[id].text) = <<>> THEN <<>>
         ELSE <<TextLine(map, id, depth)>>
    ELSE LET kids == Children(map, id)
             below == Flatten([k \in 1..Len(kids) |->
                                 TraverseBelowHidden(map, kids[k], depth + 1)])
         IN IF ~map[id].isVisible \/ ToLowerCase(map[id].tagName) \in skipTags
            THEN below
            ELSE <<ElementLine(map, id, depth)>> \o below
RECURSIVE traverse(_, _, _)
traverse(map, id, depth) ==
    IF map[id].kind = "text"
    THEN IF ~map[id].isVisible \/ TrimText(map[id].text) = <<>> THEN <<>>
         ELSE <<TextLine(map, id, depth)>>
    ELSE IF ~map[id].isVisible \/ ToLowerCase(map[id].tagName) \in skipTags THEN <<>>
    ELSE LET kids == Children(map, id)
         IN <<ElementLine(map, id, depth)>> \o
            Flatten([k \in 1..Len(kids) |-> traverse(map, kids[k], depth + 1)])

convertToFullTree(map) ==
    LET kids == Children(map, RootId)
        lines == Flatten([k \in 1..Len(kids) |-> traverse(map, kids[k], 0)])
    IN [lines |-> lines,
        refs |-> [id \in {lines[k].ref : k \in DOMAIN lines} \ {-1} |->
                    SnapshotRef(map, id)]]

\* the nodes of the trees the interactive conversion is tried on
InteractiveTemplates ==
    {ElementTemplate(tag, TRUE, h) : tag \in {"a", "button", "span", "li"}, h \in BOOLEAN}
        \cup {TextTemplate(<<"C", "l", "i", "c", "k">>, TRUE)}

\* the nodes of the trees the full conversion is tried on
FullTemplates ==
    {ElementTemplate(tag, v, h) : tag \in {"div", "script"}, v \in BOOLEAN, h \in BOOLEAN}
        \cup {TextTemplate(<<"H", "i">>, v) : v \in BOOLEAN}
        \cup {TextTemplate(<<" ">>, TRUE)}


\* the tree builder comes to the next node of the document
BuildNode(template, parent) ==
    /\ converted.mode = "none"
    /\ Len(rawTree) < MaxNodes
    /\ parent \in ParentsIn(rawTree)
    /\ rawTree' = Append(rawTree, Placed(template, parent))
    /\ UNCHANGED <<lastRole, converted, notSnap>>

\* getSnapshot with interactive: true
ConvertInteractive ==
    /\ converted.mode = "none"
    /\ rawTree # <<>>
    /\ converted' = [mode |-> "interactive", map |-> rawTree,
                     result |-> convertToAccessibilityTree(rawTree)]
    /\ UNCHANGED <<lastRole, rawTree, notSnap>>

\* getSnapshot with interactive: false
ConvertFull ==
    /\ converted.mode = "none"
    /\ rawTree # <<>>
    /\ converted' = [mode |-> "full", map |-> rawTree,
                     result |-> convertToFullTree(rawTree)]
    /\ UNCHANGED <<lastRole, rawTree, notSnap>>

NextInteractive ==
    \/ \E t \in InteractiveTemplates, parent \in 0..MaxNodes : BuildNode(t, parent)
    \/ ConvertInteractive

NextFull ==
    \/ \E t \in FullTemplates, parent \in 0..MaxNodes : BuildNode(t, parent)
    \/ ConvertFull

\* ---- names: getAccessibleName on an element and what is below it ----
MaxChain == 7
MaxBelowNamed == 2

\* the attributes getAccessibleName reads, in the order it reads them
\* (the descendant text comes before the last one)
NameAttrs == <<"aria-label", "title", "placeholder", "alt", "value", "name">>

\* the values an attribute is given: empty, blank, or a text of its own
AttrValues(k) == {<<>>, <<" ">>, <<"v", NameAttrs[k]>>}

\* the attribute objects with at most two attributes
NamedAttributes ==
    {<<>>}
    \cup UNION {{(NameAttrs[k] :> v) : v \in AttrValues(k)} : k \in DOMAIN NameAttrs}
    \cup UNION {{(NameAttrs[k] :> v) @@ (NameAttrs[l] :> w) :
                   v \in AttrValues(k), w \in AttrValues(l)} :
                k \in DOMAIN NameAttrs, l \in DOMAIN NameAttrs}

NamedElement(attrs) ==
    [kind |-> "element", tagName |-> "input", attributes |-> attrs, text |-> <<>>,
     isVisible |-> TRUE, highlighted |-> TRUE]

BelowTemplates ==
    {ElementTemplate("div", TRUE, FALSE), TextTemplate(<<"x">>, TRUE),
     TextTemplate(<<" ", "y", " ">>, FALSE), TextTemplate(<<" ">>, TRUE)}

\* the element added last
Deepest(map) == CHOOSE i \in ParentsIn(map) \ {RootId} :
                    \A j \in ParentsIn(map) \ {RootId} : j <= i

\* the tree builder comes to the element whose name is asked for
BuildNamed(attrs) ==
    /\ converted.mode = "none"
    /\ rawTree = <<>>
    /\ rawTree' = <<Placed(NamedElement(attrs), RootId)>>
    /\ UNCHANGED <<lastRole, converted, notSnap>>

\* and to the next node inside it, under the element it came to last
BuildBelow(template) ==
    /\ converted.mode = "none"
    /\ rawTree # <<>>
    /\ Len(rawTree) <= (IF DOMAIN rawTree[1].attributes = {} THEN MaxChain
                        ELSE MaxBelowNamed)
    /\ rawTree' = Append(rawTree, Placed(template, Deepest(rawTree)))
    /\ UNCHANGED <<lastRole, converted, notSnap>>

\* getAccessibleName(node, map) for the first element
ComputeName ==
    /\ converted.mode = "none"
    /\ rawTree # <<>>
    /\ converted' = [mode |-> "name", map |-> rawTree,
                     result |-> getAccessibleName(rawTree, 1)]
    /\ UNCHANGED <<lastRole, rawTree, notSnap>>

NextName ==
    \/ \E attrs \in NamedAttributes : BuildNamed(attrs)
    \/ \E t \in BelowTemplates : BuildBelow(t)
    \/ ComputeName

\* ---- long names and texts ----
\* a text of n characters
Repeat(c, n) == [i \in 1..n |-> c]

\* lengths at and just over the two limits of truncateText
LongLengths == {50, 51, 100, 101}

\* a button named by its aria-label, a button named by the text in it, and
\* text nodes
LongTemplates ==
    {[ElementTemplate("button", TRUE, TRUE)
         EXCEPT !.attributes = ("aria-label" :> Repeat("a", n))] : n \in LongLengths}
        \cup {ElementTemplate("button", TRUE, TRUE)}
        \cup {TextTemplate(Repeat("t", n), TRUE) : n \in LongLengths}

NextLong ==
    \/ \E t \in LongTemplates, parent \in 0..MaxNodes : BuildNode(t, parent)
    \/ ConvertInteractive
    \/ ConvertFull

(***************************************************************************)
(* Trace recording: the content script and the background trace service.   *)
(***************************************************************************)
\* events a recording takes up at most, buffered and in flight
MaxBuffer == 3
\* the clock of a recording stops here
MaxStamp == 1

NullTab == 0
RecordedTab == 1
TabUrls == {"/a", "/b"}

\* the elements of the page, by position
PageElements ==
    <<[tagName |-> "input", type |-> "text"],
      [tagName |-> "input", type |-> "password"],
      [tagName |-> "input", type |-> "checkbox"],
      [tagName |-> "input", type |-> "radio"],
      [tagName |-> "button", type |-> "submit"]>>
Fields == {t \in DOMAIN PageElements : PageElements[t].type \in {"text", "password"}}
Buttons == {t \in DOMAIN PageElements : PageElements[t].tagName = "button"}
Checkable == {t \in DOMAIN PageElements : PageElements[t].type \in {"checkbox", "radio"}}

NoTimer == [set |-> FALSE, due |-> 0]
\* the log when the timer its last entry set is cleared before it ran
CutLast(log, timer) ==
    IF timer.set THEN [log EXCEPT ![Len(log)].cut = TRUE] ELSE log
NotClosed == [at |-> FALSE, list |-> <<>>]
NotReturned == [done |-> FALSE, list |-> <<>>, accepted |-> <<>>, closed |-> NotClosed]

InitTrace ==
    /\ isRecording = FALSE
    /\ recordingTabId = NullTab
    /\ events = <<>>
    /\ tracePc = "idle"
    /\ recordedEvents = <<>>
    /\ returned = NotReturned
    /\ traceTab = [open |-> TRUE, url |-> "/a"]
    /\ acceptedLog = <<>>
    /\ startUrl = ""
    /\ closedWith = NotClosed

InitPage ==
    /\ now = 0
    /\ contentRecording = FALSE
    /\ channel = <<>>
    /\ checked = [t \in Checkable |-> FALSE]
    /\ inputDebounceTimer = NoTimer
    /\ lastInputElement = 0
    /\ lastInputValue = ""
    /\ inputLog = <<>>
    /\ scrollDebounceTimer = NoTimer
    /\ scrollStartY = 0
    /\ scrollY = 0
    /\ scrollLog = <<>>
    /\ otherRun = [lastInputValue |-> "", sent |-> <<>>]

\* ---- content script: clicks ----
\* the state a click leaves a checkbox or a radio button in, before the
\* listeners run
Activated(target) ==
    IF PageElements[target].type = "checkbox" THEN ~checked[target] ELSE TRUE

ClickIsCheckForRadioToo(target, isChecked) ==
    IF PageElements[target].type \in {"checkbox", "radio"}
    THEN [type |-> "check", timestamp |-> now, url |-> traceTab.url,
          xpath |-> target, checked |-> isChecked]
    ELSE [type |-> "click", timestamp |-> now, url |-> traceTab.url,
          xpath |-> target]

\* the TraceEvent handleClick builds; a checked that is undefined is not
\* part of the message
ClickEvent(target, isChecked) ==
    LET isCheckbox == /\ PageElements[target].tagName = "input"
                      /\ PageElements[target].type = "checkbox"
    IN IF isCheckbox
       THEN [type |-> "check", timestamp |-> now, url |-> traceTab.url,
             xpath |-> target, checked |-> isChecked]
       ELSE [type |-> "click", timestamp |-> now, url |-> traceTab.url,
             xpath |-> target]

\* the user clicks an element: handleClick
HandleClick(target) ==
    /\ traceTab.open
    /\ Len(events) + Len(channel) < MaxBuffer
    /\ checked' = IF target \in Checkable
                  THEN [checked EXCEPT ![target] = Activated(target)]
                  ELSE checked
    /\ channel' = IF contentRecording
                  THEN Append(channel,
                              ClickEvent(target, target \in Checkable /\ checked'[target]))
                  ELSE channel
    /\ UNCHANGED <<now, contentRecording, inputDebounceTimer, lastInputElement,
                   lastInputValue, inputLog, scrollDebounceTimer, scrollStartY,
                   scrollY, scrollLog, otherRun, traceVars, notTrace>>

\* ---- background: the trace service ----
NavigationEvent(url) == [type |-> "navigation", timestamp |-> now, url |-> url]

\* startRecording down to its first await
StartRecording ==
    /\ tracePc = "idle"
    /\ isRecording' = TRUE
    /\ recordingTabId' = RecordedTab
    /\ events' = <<>>
    /\ tracePc' = "tabs.get"
    /\ acceptedLog' = <<>>
    /\ startUrl' = traceTab.url
    /\ returned' = NotReturned
    /\ closedWith' = NotClosed
    /\ UNCHANGED <<recordedEvents, traceTab, pageVars, notTrace>>

\* chrome.tabs.get answers: the navigation event for the URL the tab has
\* now; it throws when the tab is gone
StartGotTab ==
    /\ tracePc = "tabs.get"
    /\ IF traceTab.open
       THEN /\ events' = Append(events, NavigationEvent(traceTab.url))
            /\ acceptedLog' = Append(acceptedLog, NavigationEvent(traceTab.url))
       ELSE UNCHANGED <<events, acceptedLog>>
    /\ tracePc' = "TRACE_START"
    /\ UNCHANGED <<isRecording, recordingTabId, recordedEvents, returned, traceTab,
                   startUrl, closedWith, pageVars, notTrace>>

\* the content script gets TRACE_START and answers, startRecording returns
StartSent ==
    /\ tracePc = "TRACE_START"
    /\ contentRecording' = (traceTab.open \/ contentRecording)
    /\ tracePc' = "idle"
    /\ UNCHANGED <<isRecording, recordingTabId, events, recordedEvents, returned,
                   traceTab, acceptedLog, startUrl, closedWith, now, channel, pageRest,
                   notTrace>>

\* stopRecording down to its await, or to its end when no tab is recorded
StopRecording ==
    /\ tracePc = "idle"
    /\ IF recordingTabId # NullTab
       THEN /\ tracePc' = "TRACE_STOP"
            /\ recordedEvents' = events
            /\ UNCHANGED <<isRecording, recordingTabId, events, returned, acceptedLog,
                           closedWith>>
       ELSE /\ isRecording' = FALSE
            /\ recordedEvents' = <<>>
            /\ recordingTabId' = NullTab
            /\ events' = <<>>
            /\ returned' = [done |-> TRUE, list |-> events, accepted |-> acceptedLog,
                            closed |-> closedWith]
            /\ acceptedLog' = <<>>
            /\ closedWith' = NotClosed
            /\ UNCHANGED tracePc
    /\ UNCHANGED <<traceTab, startUrl, pageVars, notTrace>>

\* what stopRecording returns after the await
StopReturns == recordedEvents

\* the content script gets TRACE_STOP and answers, stopRecording goes on
StopAcked ==
    /\ tracePc = "TRACE_STOP"
    /\ contentRecording' = FALSE
    /\ inputDebounceTimer' = NoTimer
    /\ scrollDebounceTimer' = NoTimer
    /\ inputLog' = CutLast(inputLog, inputDebounceTimer)
    /\ scrollLog' = CutLast(scrollLog, scrollDebounceTimer)
    /\ returned' = [done |-> TRUE, list |-> StopReturns, accepted |-> acceptedLog,
                    closed |-> closedWith]
    /\ acceptedLog' = <<>>
    /\ closedWith' = NotClosed
    /\ isRecording' = FALSE
    /\ recordingTabId' = NullTab
    /\ events' = <<>>
    /\ tracePc' = "idle"
    /\ recordedEvents' = <<>>
    /\ UNCHANGED <<traceTab, startUrl, now, channel, checked, lastInputElement,
                   lastInputValue, scrollStartY, scrollY, otherRun, notTrace>>

\* runtime.onMessage gets the oldest TRACE_EVENT in flight: addEvent
DeliverEvent ==
    /\ channel # <<>>
    /\ channel' = Tail(channel)
    /\ IF isRecording /\ recordingTabId = RecordedTab
       THEN /\ events' = Append(events, Head(channel))
            /\ acceptedLog' = Append(acceptedLog, Head(channel))
       ELSE UNCHANGED <<events, acceptedLog>>
    /\ UNCHANGED <<isRecording, recordingTabId, tracePc, recordedEvents, returned,
                   traceTab, startUrl, closedWith, now, contentRecording, pageRest,
                   notTrace>>

\* tabs.onUpdated reports a new URL; when the page was loaded anew its
\* content script starts and asks GET_TRACE_STATUS
UrlChange(url, reload) ==
    /\ traceTab.open
    /\ url # traceTab.url
    /\ Len(events) + Len(channel) < MaxBuffer
    /\ traceTab' = [traceTab EXCEPT !.url = url]
    /\ IF recordingTabId = RecordedTab /\ isRecording
       THEN /\ events' = Append(events, NavigationEvent(url))
            /\ acceptedLog' = Append(acceptedLog, NavigationEvent(url))
       ELSE UNCHANGED <<events, acceptedLog>>
    /\ IF reload
       THEN /\ contentRecording' = (isRecording /\ recordingTabId = RecordedTab)
            /\ checked' = [t \in Checkable |-> FALSE]
            /\ inputDebounceTimer' = NoTimer
            /\ lastInputElement' = 0
            /\ lastInputValue' = ""
            /\ inputLog' = <<>>
            /\ scrollDebounceTimer' = NoTimer
            /\ scrollStartY' = 0
            /\ scrollY' = 0
            /\ scrollLog' = <<>>
            /\ otherRun' = [otherRun EXCEPT !.lastInputValue = ""]
       ELSE UNCHANGED <<contentRecording, pageRest>>
    /\ UNCHANGED <<isRecording, recordingTabId, tracePc, recordedEvents, returned,
                   startUrl, closedWith, now, channel, notTrace>>

ClosedNow ==
    IF isRecording /\ recordingTabId = RecordedTab /\ tracePc # "TRACE_STOP"
    THEN [at |-> TRUE, list |-> events]
    ELSE closedWith

TabRemovedClears ==
    /\ traceTab.open
    /\ traceTab' = [traceTab EXCEPT !.open = FALSE]
    /\ contentRecording' = FALSE
    /\ isRecording' = FALSE
    /\ recordingTabId' = NullTab
    /\ events' = <<>>
    /\ closedWith' = ClosedNow
    /\ UNCHANGED <<tracePc, recordedEvents, returned, acceptedLog, startUrl,
                   now, channel, pageRest, notTrace>>

\* the tab is closed: tabs.onRemoved
TabRemoved ==
    /\ traceTab.open
    /\ traceTab' = [traceTab EXCEPT !.open = FALSE]
    /\ contentRecording' = FALSE
    /\ IF recordingTabId = RecordedTab
       THEN /\ isRecording' = FALSE
            /\ recordingTabId' = NullTab
       ELSE UNCHANGED <<isRecording, recordingTabId>>
    /\ closedWith' = ClosedNow
    /\ UNCHANGED <<events, tracePc, recordedEvents, returned, acceptedLog, startUrl,
                   now, channel, pageRest, notTrace>>

\* time passes
TraceTick ==
    /\ now < MaxStamp
    /\ now' = now + 1
    /\ UNCHANGED <<contentRecording, channel, pageRest, traceVars, notTrace>>

\* getStatus().recording
StatusRecording == isRecording

NextTrace ==
    \/ StartRecording
    \/ StartGotTab
    \/ StartSent
    \/ StopRecording
    \/ StopAcked
    \/ DeliverEvent
    \/ \E url \in TabUrls, reload \in BOOLEAN : UrlChange(url, reload)
    \/ TabRemoved
    \/ TraceTick
    \/ \E target \in Buttons : HandleClick(target)

\* ---- content script: recording control, debounced input and scroll ----
\* inputs and scrolls of one recording
MaxInputs == 3
MaxScrolls == 2
\* the clock of the page stops here (ms)
MaxClock == 1000

InputDebounceMs == 500
ScrollDebounceMs == 300
ScrollThreshold == 50

\* the times the clock advances by in one step (ms), for typing and for
\* scrolling
InputSteps == {250, 500}
ScrollSteps == {150, 300}
\* the clock stops here when scrolling (ms)
MaxScrollClock == 600
\* what the user types into a field
FieldTexts == {"x", "xy"}
\* the amounts a scroll moves the page by (px), and the height it can be
\* scrolled over
ScrollMoves == {20, 40, -40}
ScrollHeight == 80

Masked == "********"

Due(timer) == timer.set /\ timer.due <= now

\* TRACE_START: startRecording of the content script
ContentStartRecording ==
    /\ ~contentRecording
    /\ contentRecording' = TRUE
    /\ UNCHANGED <<now, channel, pageRest, traceVars, notTrace>>

\* TRACE_STOP or beforeunload: stopRecording of the content script
ContentStopRecording ==
    /\ contentRecording
    /\ contentRecording' = FALSE
    /\ inputDebounceTimer' = NoTimer
    /\ scrollDebounceTimer' = NoTimer
    /\ inputLog' = CutLast(inputLog, inputDebounceTimer)
    /\ scrollLog' = CutLast(scrollLog, scrollDebounceTimer)
    /\ UNCHANGED <<now, channel, checked, lastInputElement, lastInputValue,
                   scrollStartY, scrollY, otherRun, traceVars, notTrace>>

\* time passes; a timer runs when it is due
Advance(d, max) ==
    /\ now + d <= max
    /\ inputDebounceTimer.set => now + d <= inputDebounceTimer.due
    /\ scrollDebounceTimer.set => now + d <= scrollDebounceTimer.due
    /\ now' = now + d
    /\ UNCHANGED <<contentRecording, channel, pageRest, traceVars, notTrace>>

FillEventMasked(target, text) ==
    [type |-> "fill", timestamp |-> now, url |-> traceTab.url, xpath |-> target,
     value |-> Masked]

FillEventPlain(target, text) ==
    [type |-> "fill", timestamp |-> now, url |-> traceTab.url, xpath |-> target,
     value |-> text]

\* the TraceEvent the debounce callback of handleInput builds
FillEvent(target, text) ==
    LET isPassword == PageElements[target].type = "password"
    IN [type |-> "fill", timestamp |-> now, url |-> traceTab.url, xpath |-> target,
        value |-> IF isPassword THEN Masked ELSE text]

\* what the other run types when this one types text
OtherText(target, text) ==
    IF PageElements[target].type = "password"
    THEN CHOOSE t \in FieldTexts : t # text
    ELSE text

\* the user changes the value of a field to text: handleInput
HandleInput(target, text) ==
    /\ ~Due(inputDebounceTimer)
    /\ ~Due(scrollDebounceTimer)
    /\ Len(inputLog) < MaxInputs
    /\ IF contentRecording
       THEN /\ lastInputElement' = target
            /\ lastInputValue' = text
            /\ inputDebounceTimer' = [set |-> TRUE, due |-> now + InputDebounceMs]
            /\ inputLog' = Append(inputLog, [at |-> now, target |-> target,
                                             value |-> text, cut |-> FALSE])
            /\ otherRun' = [otherRun EXCEPT
                               !.lastInputValue = OtherText(target, text)]
       ELSE UNCHANGED <<lastInputElement, lastInputValue, inputDebounceTimer, inputLog,
                        otherRun>>
    /\ UNCHANGED <<now, contentRecording, channel, checked, scrollDebounceTimer,
                   scrollStartY, scrollY, scrollLog, traceVars, notTrace>>

\* the callback handleInput gave to setTimeout
InputTimerFires ==
    /\ Due(inputDebounceTimer)
    /\ IF lastInputElement = 0
       THEN UNCHANGED <<channel, inputDebounceTimer, lastInputElement, lastInputValue,
                        otherRun>>
       ELSE /\ channel' = Append(channel, FillEvent(lastInputElement, lastInputValue))
            /\ otherRun' = [lastInputValue |-> "",
                            sent |-> Append(otherRun.sent,
                                            FillEvent(lastInputElement,
                                                      otherRun.lastInputValue))]
            /\ inputDebounceTimer' = NoTimer
            /\ lastInputElement' = 0
            /\ lastInputValue' = ""
    /\ UNCHANGED <<now, contentRecording, checked, inputLog,
                   scrollDebounceTimer, scrollStartY, scrollY, scrollLog, traceVars,
                   notTrace>>

Abs(n) == IF n < 0 THEN 0 - n ELSE n

\* the page is scrolled and the scroll event is dispatched: handleScroll
\* reads window.scrollY, which is the position after the scroll
HandleScroll(move) ==
    /\ ~Due(inputDebounceTimer)
    /\ ~Due(scrollDebounceTimer)
    /\ Len(scrollLog) < MaxScrolls
    /\ scrollY + move \in 0..ScrollHeight
    /\ scrollY' = scrollY + move
    /\ IF contentRecording
       THEN /\ scrollStartY' = IF ~scrollDebounceTimer.set THEN scrollY'
                               ELSE scrollStartY
            /\ scrollDebounceTimer' = [set |-> TRUE, due |-> now + ScrollDebounceMs]
            /\ scrollLog' = Append(scrollLog, [at |-> now, from |-> scrollY,
                                               to |-> scrollY', cut |-> FALSE])
       ELSE UNCHANGED <<scrollStartY, scrollDebounceTimer, scrollLog>>
    /\ UNCHANGED <<now, contentRecording, channel, checked, inputDebounceTimer,
                   lastInputElement, lastInputValue, inputLog, otherRun, traceVars,
                   notTrace>>

\* the TraceEvent the debounce callback of handleScroll builds
ScrollEvent(deltaY) ==
    [type |-> "scroll", timestamp |-> now, url |-> traceTab.url,
     direction |-> IF deltaY > 0 THEN "down" ELSE "up", pixels |-> Abs(deltaY)]

\* the callback handleScroll gave to setTimeout
ScrollTimerFires ==
    /\ Due(scrollDebounceTimer)
    /\ LET deltaY == scrollY - scrollStartY
       IN channel' = IF Abs(deltaY) < ScrollThreshold THEN channel
                     ELSE Append(channel, ScrollEvent(deltaY))
    /\ scrollDebounceTimer' = NoTimer
    /\ UNCHANGED <<now, contentRecording, checked, inputDebounceTimer,
                   lastInputElement, lastInputValue, inputLog, scrollStartY, scrollY,
                   scrollLog, otherRun, traceVars, notTrace>>

NextClick ==
    \/ ContentStartRecording
    \/ ContentStopRecording
    \/ \E target \in DOMAIN PageElements : HandleClick(target)

NextInput ==
    \/ ContentStartRecording
    \/ ContentStopRecording
    \/ \E target \in Fields, text \in FieldTexts : HandleInput(target, text)
    \/ InputTimerFires
    \/ \E d \in InputSteps : Advance(d, MaxClock)

NextScroll ==
    \/ ContentStartRecording
    \/ ContentStopRecording
    \/ \E move \in ScrollMoves : HandleScroll(move)
    \/ ScrollTimerFires
    \/ \E d \in ScrollSteps : Advance(d, MaxScrollClock)

\* ---- content script: keys ----
CAPTURED_KEYS ==
    {"Enter", "Tab", "Escape", "ArrowUp", "ArrowDown", "ArrowLeft", "ArrowRight",
     "Home", "End", "PageUp", "PageDown", "Backspace", "Delete"}

\* the keys of one character that /[a-zA-Z0-9]/ matches, with their lower
\* case
Characters == {"a", "B"}
KeyToLowerCase(key) == IF key = "B" THEN "b" ELSE key

\* the keys pressed and the modifier held: "" for none
Keys == {"Enter", "a"}
Modifiers == {"", "Control"}
\* a key is pressed while fewer events than this are in flight
MaxPresses == 1

\* keyToLog of handleKeydown: "" when the key is not logged
KeyToLog(key, modifier) ==
    IF key \in CAPTURED_KEYS THEN key
    ELSE IF modifier # "" /\ key \in Characters
    THEN modifier \o "+" \o KeyToLowerCase(key)
    ELSE ""

PressEvent(target, keyToLog) ==
    [type |-> "press", timestamp |-> now, url |-> traceTab.url, xpath |-> target,
     key |-> keyToLog]

\* the key the other run presses when this one presses key: another
\* character when it enters a character into a password field
OtherKey(target, key, modifier) ==
    IF PageElements[target].type = "password" /\ key \in Characters /\ modifier = ""
    THEN CHOOSE c \in Characters : c # key
    ELSE key

\* the user presses a key in a field: handleKeydown
HandleKeydown(target, key, modifier) ==
    /\ ~Due(inputDebounceTimer)
    /\ ~Due(scrollDebounceTimer)
    /\ Len(channel) < MaxPresses
    /\ IF contentRecording /\ KeyToLog(key, modifier) # ""
       THEN channel' = Append(channel, PressEvent(target, KeyToLog(key, modifier)))
       ELSE UNCHANGED channel
    /\ LET other == KeyToLog(OtherKey(target, key, modifier), modifier)
       IN IF contentRecording /\ other # ""
          THEN otherRun' = [otherRun EXCEPT
                               !.sent = Append(otherRun.sent, PressEvent(target, other))]
          ELSE UNCHANGED otherRun
    /\ UNCHANGED <<now, contentRecording, checked, inputDebounceTimer,
                   lastInputElement, lastInputValue, inputLog, scrollDebounceTimer,
                   scrollStartY, scrollY, scrollLog, traceVars, notTrace>>

\* the fields of type password
PasswordFields == {t \in Fields : PageElements[t].type = "password"}

\* typing in the fields and keys in the password fields of a page that is
\* recorded
NextType ==
    \/ ContentStartRecording
    \/ \E target \in Fields, text \in FieldTexts : HandleInput(target, text)
    \/ \E target \in PasswordFields, key \in Keys, modifier \in Modifiers :
          HandleKeydown(target, key, modifier)
    \/ InputTimerFires
    \/ \E d \in InputSteps : Advance(d, MaxClock)

\* the fields of type text
TextFields == {t \in Fields : PageElements[t].type = "text"}

\* typing one text into the text fields, then captured keys and clicks
NextOrder ==
    \/ ContentStartRecording
    \/ ContentStopRecording
    \/ \E target \in TextFields : HandleInput(target, "x")
    \/ \E target \in TextFields, key \in Keys \cap CAPTURED_KEYS :
          HandleKeydown(target, key, "")
    \/ \E target \in Buttons : HandleClick(target)
    \/ InputTimerFires
    \/ \E d \in InputSteps : Advance(d, MaxClock)

\* typing into the text fields of a page whose recording is stopped, by
\* TRACE_STOP or when the page unloads
NextUnload ==
    \/ ContentStartRecording
    \/ ContentStopRecording
    \/ \E target \in TextFields, text \in FieldTexts : HandleInput(target, text)
    \/ InputTimerFires
    \/ \E d \in InputSteps : Advance(d, MaxClock)

\* ---- the redundancy filter of the interactive mode ----
\* the nodes of the trees the filter is tried on: anchors, labels and
\* spans, a span named by its title, and a text
FilterTemplates ==
    {ElementTemplate(tag, TRUE, h) : tag \in {"a", "label", "span"}, h \in BOOLEAN}
        \cup {[ElementTemplate("span", TRUE, TRUE)
                  EXCEPT !.attributes = ("title" :> <<"T">>)]}
        \cup {TextTemplate(<<"T">>, TRUE)}

NextFilter ==
    \/ \E t \in FilterTemplates, parent \in 0..MaxNodes : BuildNode(t, parent)
    \/ ConvertInteractive

(***************************************************************************)
(* Waits of the command handlers: waitForElement of dom-service.           *)
(***************************************************************************)
\* the defaults of maxWait and interval (ms), which handleWait calls with
DefaultMaxWait == 10000
DefaultInterval == 200

NotWaiting ==
    [pc |-> "idle", ref |-> <<>>, inTable |-> FALSE, xpath |-> "", elapsed |-> 0,
     probes |-> 0, found |-> FALSE, result |-> "none"]

InitWait == waiting = NotWaiting

\* handleWait calls waitForElement(activeTab.id, ref): the lookup of the
\* ref and the test of the while loop
WaitForElement(ref) ==
    /\ waiting.pc = "idle"
    /\ LET refInfo == getRefInfo(lastSnapshotRefs, ref)
           call == [NotWaiting EXCEPT !.ref = ref,
                                      !.inTable = StripAt(ref) \in DOMAIN lastSnapshotRefs]
       IN waiting' = IF refInfo.kind = "null"
                     THEN [call EXCEPT !.result = "refNotFound"]
                     ELSE IF 0 < DefaultMaxWait
                     THEN [call EXCEPT !.pc = "probe", !.xpath = refInfo.xpath]
                     ELSE [call EXCEPT !.result = "timeout"]
    /\ UNCHANGED notWait

\* executeScript answers: the locator is evaluated in the live document
WaitProbe ==
    /\ waiting.pc = "probe"
    /\ LET found == Evaluate(page, waiting.xpath) # 0
       IN waiting' = [waiting EXCEPT !.probes = @ + 1,
                                     !.found = found,
                                     !.pc = IF found THEN "idle" ELSE "sleep",
                                     !.result = IF found THEN "ok" ELSE "none"]
    /\ UNCHANGED notWait

\* the timer of the interval runs: elapsed += interval and the test of the
\* while loop
WaitSlept ==
    /\ waiting.pc = "sleep"
    /\ LET elapsed == waiting.elapsed + DefaultInterval
       IN waiting' = [waiting EXCEPT !.elapsed = elapsed,
                                     !.pc = IF elapsed < DefaultMaxWait THEN "probe"
                                            ELSE "idle",
                                     !.result = IF elapsed < DefaultMaxWait THEN "none"
                                                ELSE "timeout"]
    /\ UNCHANGED notWait

\* snapshots, changes of the document and waits for elements
NextWait ==
    \/ \E saved \in BOOLEAN : HandleSnapshot(TRUE, saved)
    \/ \E p \in Pages : DocumentChanged(p)
    \/ \E ref \in SampleRefs : WaitForElement(ref)
    \/ WaitProbe
    \/ WaitSlept

\* ---- waitForTabLoad of the navigation handlers ----
\* the default of timeout (ms)
TabLoadTimeout == 30000
\* the clock of a navigation stops here (ms), and the times it advances by
MaxLoadClock == 40000
LoadSteps == {10000, 20000}

NavigationActions == {"open", "back", "forward", "refresh"}

NotLoading ==
    [pc |-> "idle", action |-> "none", status |-> "complete", listener |-> FALSE,
     timer |-> NoTimer, clock |-> 0, completed |-> FALSE, result |-> "none"]

InitLoad == tabLoad = NotLoading

\* handleOpen, handleBack, handleForward, handleRefresh: tabs.create,
\* goBack, goForward or reload is called and the tab starts to load
HandleNavigation(action) ==
    /\ tabLoad.pc = "idle"
    /\ tabLoad' = [NotLoading EXCEPT !.pc = "navigating", !.action = action,
                                     !.status = "loading"]
    /\ UNCHANGED notLoad

\* the promise of the tabs call is settled and the handler goes on:
\* waitForTabLoad sets the timer and adds the listener
WaitForTabLoad ==
    /\ tabLoad.pc = "navigating"
    /\ tabLoad' = [tabLoad EXCEPT !.pc = "listening", !.listener = TRUE,
                                  !.timer = [set |-> TRUE,
                                             due |-> tabLoad.clock + TabLoadTimeout]]
    /\ UNCHANGED notLoad

\* the tab has loaded: tabs.onUpdated reports status 'complete' to the
\* listeners there are
TabComplete ==
    /\ tabLoad.status = "loading"
    /\ ~(tabLoad.timer.set /\ tabLoad.timer.due <= tabLoad.clock)
    /\ tabLoad' = IF tabLoad.listener
                  THEN [tabLoad EXCEPT !.status = "complete", !.completed = TRUE,
                                       !.timer = NoTimer, !.listener = FALSE,
                                       !.pc = "idle", !.result = "success"]
                  ELSE [tabLoad EXCEPT !.status = "complete", !.completed = TRUE]
    /\ UNCHANGED notLoad

\* the callback of the timer: the listener is removed and the promise
\* rejected
TabLoadTimerFires ==
    /\ tabLoad.timer.set /\ tabLoad.timer.due <= tabLoad.clock
    /\ tabLoad' = [tabLoad EXCEPT !.timer = NoTimer, !.listener = FALSE,
                                  !.pc = "idle", !.result = "Tab load timeout"]
    /\ UNCHANGED notLoad

\* time passes; the timer runs when it is due
LoadTick(d) ==
    /\ tabLoad.pc # "idle"
    /\ tabLoad.clock + d <= MaxLoadClock
    /\ tabLoad.timer.set => tabLoad.clock + d <= tabLoad.timer.due
    /\ tabLoad' = [tabLoad EXCEPT !.clock = @ + d]
    /\ UNCHANGED notLoad

NextLoad ==
    \/ \E action \in NavigationActions : HandleNavigation(action)
    \/ WaitForTabLoad
    \/ TabComplete
    \/ TabLoadTimerFires
    \/ \E d \in LoadSteps : LoadTick(d)

\* ---- handleDialog and the debugger events ----
\* the dialogs a page opens, one after the other
MaxDialogs == 3

DialogResponses == {"accept", "dismiss"}

NoDialogCall ==
    [pc |-> "idle", dialogResponse |-> "none", pendingDialog |-> 0, deleted |-> 0,
     result |-> "none"]

InitDialog ==
    /\ debuggerAttached = FALSE
    /\ pendingDialogs = 0
    /\ openDialog = 0
    /\ dialogsOpened = 0
    /\ dialogCall = NoDialogCall

\* handleDialog after ensureDebuggerAttached: pendingDialogs.get(tabId),
\* the no-pending-dialog error or the Page.handleJavaScriptDialog command
DialogLookup(call) ==
    IF pendingDialogs = 0
    THEN [call EXCEPT !.pc = "idle", !.result = "noPendingDialog"]
    ELSE [call EXCEPT !.pc = "sent", !.pendingDialog = pendingDialogs]

\* handleDialog: a dialog command arrives
HandleDialog(dialogResponse) ==
    /\ dialogCall.pc = "idle"
    /\ LET call == [NoDialogCall EXCEPT !.dialogResponse = dialogResponse]
       IN dialogCall' = IF debuggerAttached THEN DialogLookup(call)
                        ELSE [call EXCEPT !.pc = "attaching"]
    /\ UNCHANGED <<debuggerAttached, pendingDialogs, openDialog, dialogsOpened,
                   notDialog>>

\* ensureDebuggerAttached: attach and Page.enable have answered
DebuggerAttached ==
    /\ dialogCall.pc = "attaching"
    /\ debuggerAttached' = TRUE
    /\ dialogCall' = DialogLookup(dialogCall)
    /\ UNCHANGED <<pendingDialogs, openDialog, dialogsOpened, notDialog>>

\* the page opens a dialog while the debugger is attached:
\* Page.javascriptDialogOpening reaches onDebuggerEvent
DialogOpening ==
    /\ debuggerAttached
    /\ openDialog = 0
    /\ dialogsOpened < MaxDialogs
    /\ dialogsOpened' = dialogsOpened + 1
    /\ openDialog' = dialogsOpened + 1
    /\ pendingDialogs' = dialogsOpened + 1
    /\ UNCHANGED <<debuggerAttached, dialogCall, notDialog>>

\* the browser runs Page.handleJavaScriptDialog: the dialog closes,
\* Page.javascriptDialogClosed reaches onDebuggerEvent, and the answer to
\* the command is on its way; without a dialog the command fails
DialogHandled ==
    /\ dialogCall.pc = "sent"
    /\ IF openDialog # 0
       THEN /\ openDialog' = 0
            /\ pendingDialogs' = 0
            /\ dialogCall' = [dialogCall EXCEPT !.pc = "answered"]
       ELSE /\ dialogCall' = [dialogCall EXCEPT !.pc = "idle", !.result = "failed"]
            /\ UNCHANGED <<openDialog, pendingDialogs>>
    /\ UNCHANGED <<debuggerAttached, dialogsOpened, notDialog>>

\* the user closes the dialog: Page.javascriptDialogClosed
DialogClosed ==
    /\ openDialog # 0
    /\ openDialog' = 0
    /\ pendingDialogs' = 0
    /\ UNCHANGED <<debuggerAttached, dialogsOpened, dialogCall, notDialog>>

\* handleDialog goes on after the await: pendingDialogs.delete(tabId) and
\* the result
DialogReturns ==
    /\ dialogCall.pc = "answered"
    /\ pendingDialogs' = 0
    /\ dialogCall' = [dialogCall EXCEPT !.pc = "idle", !.deleted = pendingDialogs,
                                        !.result = "success"]
    /\ UNCHANGED <<debuggerAttached, openDialog, dialogsOpened, notDialog>>

NextDialog ==
    \/ \E dialogResponse \in DialogResponses : HandleDialog(dialogResponse)
    \/ DebuggerAttached
    \/ DialogOpening
    \/ DialogHandled
    \/ DialogClosed
    \/ DialogReturns

(***************************************************************************)
(* Specifications.                                                         *)
(***************************************************************************)
Init == InitRelay /\ InitSSE /\ InitRef /\ InitRead /\ InitDec /\ InitHandlers
        /\ InitFrame /\ InitSnap /\ InitTrace /\ InitPage /\ InitWait
        /\ InitLoad /\ InitDialog

Next ==
    \/ \E n \in 0..MaxCopies : RelaySubmit(n)
    \/ \E id \in Ids, a \in SampleActions,
          wf \in BOOLEAN, net \in FetchOutcomes :
          \E out \in HandlerOutcomes(Command(id, a, wf)) :
             /\ (a \in FieldActions \/ wf)
             /\ HandleCommand(id, a, wf, out, net)
    \/ \E id \in ForeignIds, ok \in BOOLEAN : RelayOrphan(id, ok)
    \/ Tick
    \/ \E id \in Ids : RelayTimeout(id)

Spec == Init /\ [][Next]_vars

SpecSSE == Init /\ [][NextSSE]_vars

SpecRef == Init /\ [][NextRef]_vars

SpecRead == Init /\ [][NextRead]_vars

SpecDec == Init /\ [][NextDec]_vars

SpecRecords == Init /\ [][NextRecords]_vars

SpecHandlers == Init /\ [][NextHandlers]_vars

SpecFrame == Init /\ [][NextFrame]_vars

SpecRole == Init /\ [][NextRole]_vars

SpecInteractive == Init /\ [][NextInteractive]_vars

SpecFull == Init /\ [][NextFull]_vars

SpecName == Init /\ [][NextName]_vars

SpecLong == Init /\ [][NextLong]_vars

SpecFilter == Init /\ [][NextFilter]_vars

SpecWait == Init /\ [][NextWait]_vars

SpecLoad == Init /\ [][NextLoad]_vars

SpecDialog == Init /\ [][NextDialog]_vars

SpecTrace == Init /\ [][NextTrace]_vars

SpecClick == Init /\ [][NextClick]_vars

SpecInput == Init /\ [][NextInput]_vars

SpecScroll == Init /\ [][NextScroll]_vars

SpecType == Init /\ [][NextType]_vars

SpecOrder == Init /\ [][NextOrder]_vars

\* timers run when they are due and time passes
SpecUnload ==
    /\ Init /\ [][NextUnload]_vars
    /\ WF_vars(InputTimerFires)
    /\ WF_vars(\E d \in InputSteps : Advance(d, MaxClock))

\* timers fire and time passes: the relay's event loop runs every due
\* timeout callback
SpecLive ==
    /\ Spec
    /\ WF_vars(Tick)
    /\ \A id \in Ids : WF_vars(RelayTimeout(id))

(***************************************************************************)
(* Claims on the executor boundary and the relay.                          *)
(***************************************************************************)

\* C1: every handleCommand invocation builds one Result carrying the id of
\* its command, posts it exactly once, and returns without rejecting,
\* whatever the action, the fields, or the failure inside the handler.
C1_OneResultPostedOnce ==
    lastRun # NoRun =>
        /\ lastRun.resultId = lastRun.id
        /\ lastRun.posts = 1
        /\ lastRun.promise = "resolved"

\* C1 witness: a handler threw and the catch-all built the failure Result,
\* which was posted
C1_Witness ==
    /\ lastRun.caught
    /\ lastRun.posts = 1
    /\ lastRun.resultId = lastRun.id

\* C2: the relay accepts at most one Result per id, the accepted Result
\* answers the submit call that was given that id, and a Result that finds
\* no pending waiter changes no caller's outcome.
C2_AtMostOneAccepted ==
    /\ [](\A i \in Ids :
            /\ accepted[i] <= 1
            /\ (outcome[i].state = "result") <=> (accepted[i] = 1)
            /\ outcome[i].state \in {"result", "Timeout"}
                  => outcome[i].result.id = i)
    /\ [][\A i \in Ids :
            outcome[i].state \in {"result", "Timeout"}
               => outcome'[i] = outcome[i]]_vars

\* C2 witness: a Result for id 1 was accepted and a second Result with the
\* same id was dropped
C2_Witness ==
    /\ accepted[1] = 1
    /\ outcome[1].state = "result"
    /\ lastDropped = 1

\* C3: every submit returns: a caller that is waiting eventually has a
\* Result or an explicit Timeout failure.
C3_SubmitReturns ==
    \A i \in Ids :
        (outcome[i].state = "waiting")
           ~> (outcome[i].state \in {"result", "Timeout"})

\* C3 witness: the relay accepted no Result for command 1, no
\* handleCommand is running for it, and the timeout step has just given
\* its caller the Timeout failure
C3_Witness ==
    /\ outcome[1] = TimeoutFailure(1)
    /\ accepted[1] = 0
    /\ lastRun = NoRun
    /\ \A i \in Ids : inflight[i] = 0

\* C4: a ref-addressed operation never acts on an element other than
\* the one its ref denoted when the most recent snapshot was taken: an
\* operation that acts on an element acts on that one.
C4_ActsOnDenotedElement ==
    (lastOp.op \in ElementOps /\ lastOp.acted # 0) => lastOp.acted = lastOp.denoted

\* C5: after a snapshot and before any later snapshot or document change,
\* an operation resolves every ref id of the snapshot's table, written
\* with or without '@', and fails with ref-not-found for every other id.
C5_ResolveFollowsTable ==
    (lastOp.op \in ElementOps /\ lastOp.fresh) =>
        IF lastOp.inTable THEN lastOp.status = "ok"
        ELSE lastOp.status = "refNotFound"

\* C6: at every moment the table a lookup consults is the table of the
\* most recent successful snapshot; no restore from session storage puts
\* older contents in its place.
C6_TableIsLatestSnapshot ==
    /\ ConsultedTable = latestTable
    /\ DOMAIN lastSnapshotRefs # {} => lastSnapshotRefs = latestTable

\* C7: a ref-addressed operation whose locator matches no live element
\* returns a failure; none returns success without an element.
C7_MissingElementFails ==
    (lastOp.op \in ElementOps /\ lastOp.inTable /\ lastOp.status = "ok") =>
        lastOp.acted # 0

\* C8: at most one event stream is open or being opened at any time.
C8_OneStream == Cardinality(OpenStreams) <= 1

\* C9: when the keepalive alarm fires while the client is not connected,
\* with no connect() running and no reconnect timer pending, the alarm's
\* connect() starts a new connection attempt.
C9_AlarmStartsAttempt ==
    (lastAlarm.notConnected /\ lastAlarm.quiet) => lastAlarm.started

\* C10: counted from the last successful connection, the k-th reconnect
\* is scheduled 3000 * 2^(k-1) ms ahead (3, 6, 12, 24, 48 s);
\* reconnectAttempts never exceeds 5, no sixth reconnect is scheduled, and
\* the counter goes back to 0 only in the step where a connection succeeds.
C10_Backoff ==
    /\ [](/\ reconnectAttempts \in 0..5
          /\ scheduled.k \in 0..5
          /\ scheduled.k > 0 =>
                scheduled.delay = <<3000, 6000, 12000, 24000, 48000>>[scheduled.k])
    /\ [][reconnectAttempts' < reconnectAttempts =>
            /\ reconnectAttempts' = 0
            /\ \E s \in Slots : conns[s].pc = "fetch" /\ conns'[s].pc = "read"]_vars

\* the fifth reconnect was scheduled 48 s ahead, its attempt failed too,
\* and no further reconnect was scheduled
C10_Witness ==
    /\ scheduled = [k |-> 5, delay |-> 48000]
    /\ reconnectAttempts = 5
    /\ timers = 0
    /\ \A s \in Slots : conns[s].pc \in {"free", "ended"}

\* C11: the read loop never waits for a command handler: whenever a record
\* is on the stream the loop can take it, whatever handlers are suspended;
\* the Results posted are those of dispatched commands, in the order the
\* handlers finish.
C11_ReadNeverWaits ==
    /\ incoming # <<>> => ENABLED ReadRecord
    /\ \A i \in Ids : Posts(i) + running[i] = Executions(i)

\* C11 witness: command 2 was dispatched while the handler of command 1
\* was suspended, and its Result was posted first
C11_Witness ==
    /\ dispatched = <<1, 2>>
    /\ posted = <<2>>
    /\ running[1] = 1

\* C12: a command id causes at most one handler execution and at most one
\* posted Result, also when the command is delivered again.
C12_AtMostOncePerId ==
    \A i \in Ids : Executions(i) <= 1 /\ Posts(i) <= 1

\* C13: however the bytes of a stream are split into read chunks (inside
\* a line, between CR and LF, between the lines of a record), the decoder
\* dispatches the messages it dispatches for the unsplit stream: after the
\* last chunk the two sequences are equal, and before it the messages so
\* far are those of the text read so far.
C13_SplitInvariant ==
    reading =>
        messages = Unsplit(SubSeq(stream, 1, Len(stream) - Len(rest)))

\* C13 witness: of a record whose lines end with CR LF, the reads so far
\* have returned everything but the last LF: a chunk ended between the CR
\* and the LF of the blank line, the fields are held and nothing has been
\* dispatched yet
C13_Witness ==
    /\ reading
    /\ stream = EventPrefix \o <<"c", CR, LF>> \o DataPrefix \o <<" ", "x", CR, LF>>
                  \o <<CR, LF>>
    /\ rest = <<LF>>
    /\ decoder = [buffer |-> <<CR>>, event |-> <<"c">>, data |-> <<"x">>]
    /\ messages = <<>>

\* C14: a reconnect is scheduled by a stream end or a transport error and
\* never by a deliberate cancellation: when a connect() invocation whose
\* controller disconnect() aborted returns, no timer is set and
\* reconnectAttempts stays; when one that was not aborted returns, exactly
\* one reconnect is scheduled while the counter is under the cap; and no
\* other step schedules a reconnect.
C14_ReconnectNotOnAbort ==
    [][/\ \A s \in Slots :
            (conns[s].pc \in {"fetch", "read"} /\ conns'[s].pc \in {"free", "ended"}) =>
               IF conns[s].aborted
               THEN timers' = timers /\ reconnectAttempts' = reconnectAttempts
               ELSE IF reconnectAttempts < SSE_MAX_RECONNECT_ATTEMPTS
               THEN timers' = timers + 1 /\ reconnectAttempts' = reconnectAttempts + 1
               ELSE timers' = timers /\ reconnectAttempts' = reconnectAttempts
       /\ timers' > timers =>
            \E s \in Slots : /\ conns[s].pc \in {"fetch", "read"}
                             /\ ~conns[s].aborted
                             /\ conns'[s].pc \in {"free", "ended"}]_vars

\* C14 witness: disconnect() has aborted the read of an open stream; no
\* reconnect is scheduled and the counter is still 0
C14_Witness ==
    /\ \E s \in Slots : conns[s].pc = "read" /\ conns[s].aborted
    /\ ~isConnectedFlag
    /\ timers = 0
    /\ reconnectAttempts = 0

\* C15: a DOM-touching command issued while the active tab shows a page of
\* a browser-internal scheme returns a failure whose error names the
\* restricted page (the handler's own message or the browser's refusal),
\* and no script runs in the page.
C15_RestrictedPageRejected ==
    (lastCall.action \in DomActions /\ IsRestricted(lastCall.url)) =>
        /\ ~lastCall.result.success
        /\ lastCall.result.error \in {"RestrictedPage", "BrowserRefused"}
        /\ ~lastCall.result.ran

\* C16: every action of the enum is routed to a handler, and the Unknown
\* action failure is returned only for actions outside the enum.
C16_EnumRouted ==
    lastCall # NoCall =>
        /\ lastCall.action \in ActionType => lastCall.result.routed
        /\ lastCall.result.error = "UnknownAction" => lastCall.action \notin ActionType

\* C17: after a successful frame command every snapshot and ref-addressed
\* element operation is evaluated in the frame that command chose, until
\* frame_main puts the main frame back; a frame command that fails leaves
\* the pointer where it was.
C17_FrameInEffect ==
    /\ lastEval.kind \in EvalOps => lastEval.frame = chosenFrame
    /\ (lastEval.kind = "frame" /\ ~lastEval.ok) =>
          activeFrameId = lastEval.before /\ handlerFrameId = lastEval.before

\* C20: the role is the explicit role attribute when it is non-empty;
\* otherwise the tag table's value, an input being mapped by its lowercased
\* type with textbox for a missing or unlisted type; a tag outside the
\* table yields its own lowercased name.
C20_RoleInference ==
    lastRole.called =>
        LET node == lastRole.node
            tag == ToLowerCase(node.tagName)
            explicit == Attribute(node, "role")
            given == Attribute(node, "type")
            type == IF given = Undefined THEN Undefined ELSE ToLowerCase(given)
        IN IF explicit # Undefined /\ explicit # "" THEN lastRole.role = explicit
           ELSE /\ tag = "a" => lastRole.role = "link"
                /\ tag = "button" => lastRole.role = "button"
                /\ tag \in {"h1", "h2", "h3", "h4", "h5", "h6"} => lastRole.role = "heading"
                /\ (tag \in DOMAIN roleMap(node) /\ tag # "input") =>
                      lastRole.role = roleMap(node)[tag]
                /\ tag = "input" =>
                      /\ type \in {"text", "password", "email", "url", "tel"} =>
                            lastRole.role = "textbox"
                      /\ type = "checkbox" => lastRole.role = "checkbox"
                      /\ type = "radio" => lastRole.role = "radio"
                      /\ type \in {"submit", "button"} => lastRole.role = "button"
                      /\ (type = Undefined \/ type \notin DOMAIN inputRoleMap) =>
                            lastRole.role = "textbox"
                /\ tag \notin DOMAIN roleMap(node) => lastRole.role = tag

\* the elements on the way from the root's children down to the node
RECURSIVE Enclosing(_, _)
Enclosing(map, id) ==
    IF map[id].parent = RootId THEN {}
    ELSE {map[id].parent} \cup Enclosing(map, map[id].parent)

\* the document of the example: <a href="#"><span>Click</span></a>, both
\* elements carrying an index
AnchorExample ==
    <<Placed(ElementTemplate("a", TRUE, TRUE), RootId),
      Placed(ElementTemplate("span", TRUE, TRUE), 1),
      Placed(TextTemplate(<<"C", "l", "i", "c", "k">>, TRUE), 2)>>

\* C18: in interactive mode a span/div/i/b/em/strong/small/svg/path/g
\* element below an index-carrying anchor or button gets no ref of its own;
\* the example document has exactly one ref, on the anchor, named "Click".
C18_NoRefBelowAnchor ==
    converted.mode = "interactive" =>
        LET map == converted.map
            refs == converted.result.refs
        IN /\ \A d \in DOMAIN map :
                 (/\ map[d].kind = "element" /\ map[d].highlighted
                  /\ map[d].tagName \in {"span", "div", "i", "b", "em", "strong",
                                         "small", "svg", "path", "g"}
                  /\ \E a \in Enclosing(map, d) :
                        map[a].highlighted /\ map[a].tagName \in {"a", "button"})
                 => d \notin DOMAIN refs
           /\ map = AnchorExample =>
                 /\ DOMAIN refs = {1}
                 /\ refs[1].tagName = "a" /\ refs[1].name = <<"C", "l", "i", "c", "k">>

C18_Witness ==
    /\ converted.mode = "interactive"
    /\ converted.map = AnchorExample
    /\ DOMAIN converted.result.refs = {1}

\* an element the full traversal does not stop at
Shown(map, id) ==
    map[id].isVisible /\ ToLowerCase(map[id].tagName) \notin skipTags

\* the node is reached: every element above it is shown
Reached(map, id) == \A a \in Enclosing(map, id) : Shown(map, a)

\* document order: the order of a depth-first traversal
RECURSIVE Before(_, _)
Before(p, q) ==
    /\ q # <<>>
    /\ \/ p = <<>>
       \/ Head(p) < Head(q)
       \/ Head(p) = Head(q) /\ Before(Tail(p), Tail(q))

\* the lines are those of the nodes in emitted, one each, in document
\* order, indented by depth, and the refs are those of the emitted
\* elements that carry an index
FullTreeShows(emitted) ==
    LET map == converted.map
        lines == converted.result.lines
    IN /\ {lines[k].node : k \in DOMAIN lines} = emitted
       /\ Len(lines) = Cardinality(emitted)
       /\ \A k, l \in DOMAIN lines :
             k < l => Before(XPathOf(map, lines[k].node), XPathOf(map, lines[l].node))
       /\ \A k \in DOMAIN lines :
             lines[k].indent = 2 * Cardinality(Enclosing(map, lines[k].node))
       /\ DOMAIN converted.result.refs =
             {id \in emitted : map[id].kind = "element" /\ map[id].highlighted}

\* C19: full mode emits one line for each node reached through visible,
\* non-skipped elements, an invisible or skipped element suppressing its
\* subtree; lines are indented two spaces per level and refs are recorded
\* exactly for the emitted elements that carry an index.
C19_OneLinePerReachedNode ==
    converted.mode = "full" =>
        FullTreeShows({id \in DOMAIN converted.map :
                          /\ Reached(converted.map, id)
                          /\ converted.map[id].kind = "element" => Shown(converted.map, id)})

\* C19 as amended: as above, where a reached text node has a line only
\* if it is visible and its trimmed text is not empty.
C19_OneLinePerShownNode ==
    converted.mode = "full" =>
        FullTreeShows({id \in DOMAIN converted.map :
                          /\ Reached(converted.map, id)
                          /\ converted.map[id].kind = "element" => Shown(converted.map, id)
                          /\ converted.map[id].kind = "text" =>
                                /\ converted.map[id].isVisible
                                /\ TrimText(converted.map[id].text) # <<>>})

C19_Witness ==
    /\ converted.mode = "full"
    /\ converted.map = <<Placed(ElementTemplate("div", TRUE, TRUE), RootId),
                         Placed(ElementTemplate("div", FALSE, TRUE), 1),
                         Placed(TextTemplate(<<"H", "i">>, TRUE), 2)>>
    /\ Len(converted.result.lines) = 1
    /\ DOMAIN converted.result.refs = {1}

\* the first text of the list that is not empty, the empty text if none
FirstNonEmpty(vals) ==
    IF \A k \in DOMAIN vals : vals[k] = <<>> THEN <<>>
    ELSE vals[CHOOSE k \in DOMAIN vals :
                 vals[k] # <<>> /\ \A j \in 1..(k - 1) : vals[j] = <<>>]

\* the trimmed, non-empty texts of the text nodes below the element down
\* to depth cap (its children being at depth 0), in document order, joined
\* by single spaces
TextBelow(map, id, cap) ==
    LET below == SelectSeq([i \in 1..Len(map) |-> i],
                           LAMBDA d : /\ id \in Enclosing(map, d)
                                      /\ map[d].kind = "text"
                                      /\ Trim(map[d].text) # <<>>
                                      /\ Cardinality(Enclosing(map, d))
                                            - Cardinality(Enclosing(map, id)) - 1 <= cap)
    IN JoinSpace([k \in DOMAIN below |-> Trim(map[below[k]].text)])

\* C21: the computed name is the first non-empty of aria-label, title,
\* placeholder, alt, value, the descendant text down to depth 5 joined by
\* single spaces, and the name attribute; it is absent when all are empty.
C21_NamePriority ==
    converted.mode = "name" =>
        LET node == converted.map[1]
        IN converted.result =
              FirstNonEmpty(<<AttrText(node, "aria-label"), AttrText(node, "title"),
                              AttrText(node, "placeholder"), AttrText(node, "alt"),
                              AttrText(node, "value"),
                              TextBelow(converted.map, 1, 5),
                              AttrText(node, "name")>>)

C21_Witness ==
    /\ converted.mode = "name"
    /\ Len(converted.map) = 8
    /\ \A i \in 2..7 : converted.map[i].kind = "element"
    /\ converted.map[8].text = <<"x">>
    /\ converted.result = <<>>

\* a value over its limit is cut to limit - 3 characters and '...'; a
\* value at or under it is left as it is
CutTo(value, limit) ==
    IF Len(value) > limit THEN SubSeq(value, 1, limit - 3) \o <<".", ".", ".">>
    ELSE value

\* C22: in both modes a name shown in a line has at most 50 characters, a
\* name stored in the ref table at most 100, the text of a text line at
\* most 100; a longer value is cut to limit - 3 characters plus '...',
\* a value within its limit is unchanged.
C22_NamesCut ==
    converted.mode \in {"interactive", "full"} =>
        LET map == converted.map
            lines == converted.result.lines
            refs == converted.result.refs
        IN /\ \A k \in DOMAIN lines :
                 /\ Len(lines[k].name) <= (IF map[lines[k].node].kind = "text"
                                           THEN 100 ELSE 50)
                 /\ lines[k].name =
                       IF map[lines[k].node].kind = "text"
                       THEN CutTo(Trim(map[lines[k].node].text), 100)
                       ELSE CutTo(getAccessibleName(map, lines[k].node), 50)
           /\ \A id \in DOMAIN refs :
                 /\ Len(refs[id].name) <= 100
                 /\ refs[id].name = CutTo(getAccessibleName(map, id), 100)

C22_Witness ==
    /\ converted.mode = "full"
    /\ \E k \in DOMAIN converted.result.lines :
          LET id == converted.result.lines[k].node
          IN /\ converted.map[id].kind = "element"
             /\ Len(getAccessibleName(converted.map, id)) = 101
             /\ Len(converted.result.lines[k].name) = 50
             /\ Len(converted.result.refs[id].name) = 100
    /\ \E k \in DOMAIN converted.result.lines :
          /\ converted.map[converted.result.lines[k].node].kind = "text"
          /\ Len(converted.result.lines[k].name) = 100
          /\ Len(converted.map[converted.result.lines[k].node].text) = 101

(***************************************************************************)
(* Claims on trace recording.                                              *)
(***************************************************************************)

\* C23: once startRecording has been called, the first element of the event
\* buffer, and of the list a later stopRecording returns, is the navigation
\* event for the URL the tab had when the call was made.
C23_FirstIsStartNavigation ==
    LET first(list) == /\ list[1].type = "navigation"
                       /\ list[1].url = startUrl
    IN /\ (isRecording /\ events # <<>>) => first(events)
       /\ (returned.done /\ returned.list # <<>>) => first(returned.list)

\* C24: stopRecording returns every event accepted into the buffer since
\* the last startRecording, in the order accepted, and leaves the recorder
\* idle with an empty buffer; an event accepted while it waits for the
\* content script to answer is in the list too.
C24_StopReturnsAllAccepted ==
    returned.done =>
        /\ returned.list = returned.accepted
        /\ ~isRecording
        /\ recordingTabId = NullTab
        /\ events = <<>>

\* C25: the timestamps of the buffered events never decrease in buffer
\* order.
C25_TimestampsNonDecreasing ==
    \A i \in DOMAIN events, j \in DOMAIN events :
        i <= j => events[i].timestamp <= events[j].timestamp

\* C26: when the recorded tab is closed while recording, the status
\* reports recording = false and the buffer stays as it was, and the
\* stopRecording call that follows returns exactly that buffer.
C26_ClosedTabKeepsBuffer ==
    /\ closedWith.at => /\ ~StatusRecording
                        /\ events = closedWith.list
    /\ (returned.done /\ returned.closed.at) => returned.list = returned.closed.list

\* C26 witness: the tab was closed with two events recorded, and a later
\* stopRecording returned
C26_Witness ==
    /\ returned.done
    /\ returned.closed.at
    /\ Len(returned.list) = 2
    /\ returned.list[2].type = "click"

\* the fill events sent, in the order sent
Fills == SelectSeq(channel, LAMBDA e : e.type = "fill")

\* entry k of the log is the last of a burst that is over: the next event
\* came gap ms or more after it, or none came and no timer is pending; a
\* burst whose timer stopRecording cleared is not counted
BurstOver(log, timer, gap, k) ==
    /\ ~log[k].cut
    /\ IF k < Len(log) THEN log[k + 1].at - log[k].at >= gap
       ELSE ~timer.set

\* the first entry of the burst entry k belongs to
BurstStart(log, gap, k) ==
    CHOOSE i \in 1..k :
        /\ \A j \in i..(k - 1) : log[j + 1].at - log[j].at < gap /\ ~log[j].cut
        /\ i > 1 => (log[i].at - log[i - 1].at >= gap \/ log[i - 1].cut)

C28_FillPerField ==
    \A k \in DOMAIN inputLog :
        LET field == inputLog[k].target
            due == inputLog[k].at + InputDebounceMs
        IN (/\ \A j \in k..Len(inputLog) : ~inputLog[j].cut
            /\ \A j \in (k + 1)..Len(inputLog) :
                  \/ inputLog[j].target # field
                  \/ inputLog[j].at >= due
            /\ now >= due
            /\ ~(inputDebounceTimer.set /\ inputDebounceTimer.due = due))
           => \E n \in DOMAIN Fills :
                 /\ Fills[n].xpath = field
                 /\ Fills[n].timestamp = due
                 /\ Fills[n].value = FillEvent(field, inputLog[k].value).value

\* the scroll events sent, in the order sent
Scrolls == SelectSeq(channel, LAMBDA e : e.type = "scroll")

\* C29: a burst of scrolls less than 300 ms apart gives one scroll event,
\* 300 ms after the last, when the position after the burst differs by 50 px
\* or more from the position before its first scroll, and none otherwise;
\* the event carries the absolute difference and its direction.
C29_NetDisplacementPerBurst ==
    \A k \in DOMAIN scrollLog :
        LET i == BurstStart(scrollLog, ScrollDebounceMs, k)
            net == scrollLog[k].to - scrollLog[i].from
            sent == SelectSeq(Scrolls, LAMBDA e :
                        /\ e.timestamp > scrollLog[i].at
                        /\ e.timestamp <= scrollLog[k].at + ScrollDebounceMs)
        IN BurstOver(scrollLog, scrollDebounceTimer, ScrollDebounceMs, k)
           => IF Abs(net) >= ScrollThreshold
              THEN /\ Len(sent) = 1
                   /\ sent[1].timestamp = scrollLog[k].at + ScrollDebounceMs
                   /\ sent[1].pixels = Abs(net)
                   /\ sent[1].direction = (IF net > 0 THEN "down" ELSE "up")
              ELSE sent = <<>>

\* C30: a click on an input of type checkbox or radio sends a check event
\* with the checked state the click left the input in; a click on anything
\* else sends a click event.
C30_CheckForCheckboxAndRadio ==
    [][Len(channel') = Len(channel) + 1 =>
          LET e == channel'[Len(channel')]
              el == PageElements[e.xpath]
          IN e.type \in {"click", "check"} =>
                IF el.tagName = "input" /\ el.type \in {"checkbox", "radio"}
                THEN e.type = "check" /\ e.checked = checked'[e.xpath]
                ELSE e.type = "click"]_vars

(***************************************************************************)
(* Claims on the redundancy filter.                                        *)
(***************************************************************************)
\* the elements carrying an index
Indexed(map) == {d \in DOMAIN map : map[d].kind = "element" /\ map[d].highlighted}

\* rule 1: a non-semantic element or an anchor without a name
Rule1(map, d) ==
    /\ map[d].tagName \in {"span", "div", "i", "b", "em", "strong", "small", "svg",
                           "path", "g", "a"}
    /\ getAccessibleName(map, d) = <<>>

\* rule 2: a label
Rule2(map, d) == map[d].tagName = "label"

\* the index-carrying ancestors that make rule 3 apply: anchors and buttons
\* above a non-semantic element
Rule3Ancestors(map, d) ==
    {a \in Enclosing(map, d) \cap Indexed(map) :
        /\ map[a].tagName \in {"a", "button"}
        /\ map[d].tagName \in {"span", "div", "i", "b", "em", "strong", "small",
                               "svg", "path", "g"}}

\* the index-carrying ancestors that make rule 4 apply: those with the
\* same, non-empty name
Rule4Ancestors(map, d) ==
    {a \in Enclosing(map, d) \cap Indexed(map) :
        /\ getAccessibleName(map, d) # <<>>
        /\ getAccessibleName(map, a) = getAccessibleName(map, d)}

C34_HandleSurvives ==
    converted.mode = "interactive" =>
        LET map == converted.map
            refs == converted.result.refs
        IN \A d \in Indexed(map) :
              (~Rule1(map, d) /\ ~Rule2(map, d)) =>
                 /\ Rule3Ancestors(map, d) # {} =>
                       \E a \in Rule3Ancestors(map, d) : a \in DOMAIN refs
                 /\ (Rule3Ancestors(map, d) = {} /\ Rule4Ancestors(map, d) # {}) =>
                       \E a \in Rule4Ancestors(map, d) : a \in DOMAIN refs

(***************************************************************************)
(* Claims on reconnect timers, the decoder's records and waits.            *)
(***************************************************************************)

\* C35: a reconnect timer that was set before a listener called
\* disconnect() starts no connection attempt when it fires and aborts no
\* connection that a connect() called after that disconnect() opened.
C35_StaleTimerDoesNothing ==
    (timerLog.fired /\ timerLog.wasStale) =>
        /\ ~timerLog.started
        /\ ~timerLog.aborted

\* a line of a stream in which every blank line ends the record and
\* discards its fields: d is [event, data, out]
RecordLine(d, line) ==
    LET trimmedLine == Trim(line) IN
    IF StartsWith(trimmedLine, EventPrefix)
    THEN [d EXCEPT !.event = Trim(Substring(trimmedLine, 6))]
    ELSE IF StartsWith(trimmedLine, DataPrefix)
    THEN [d EXCEPT !.data = Trim(Substring(trimmedLine, 5))]
    ELSE IF trimmedLine = <<>>
    THEN [event |-> <<>>, data |-> <<>>,
          out |-> IF d.event # <<>> /\ d.data # <<>>
                  THEN Append(d.out, <<d.event, d.data>>) ELSE d.out]
    ELSE d

RECURSIVE RecordLines(_, _)
RecordLines(d, lines) ==
    IF lines = <<>> THEN d ELSE RecordLines(RecordLine(d, Head(lines)), Tail(lines))

\* the messages of the complete records of a text: the event and the data
\* of each record that has both
RecordMessages(text) ==
    LET lines == SplitLF(text) IN
    RecordLines([event |-> <<>>, data |-> <<>>, out |-> <<>>],
                SubSeq(lines, 1, Len(lines) - 1)).out

\* C36: the messages dispatched are the event and data of the records read
\* that have both; an event line or a data line of a record that lacks the
\* other field is never paired with a field of a later record.
C36_FieldsOfOneRecord ==
    messages = RecordMessages(SubSeq(stream, 1, Len(stream) - Len(rest)))

(***************************************************************************)
(* Claims on typing: passwords, stops and the order of the events.         *)
(***************************************************************************)
\* the fill and press events sent, in the order sent
TypedEvents == SelectSeq(channel, LAMBDA e : e.type \in {"fill", "press"})

\* C31: a run in which other characters are entered into the password
\* fields, everything else being the same, sends the same fill and press
\* events, and the fill events of a password field carry '********'.
C31_PasswordDoesNotShow ==
    /\ TypedEvents = otherRun.sent
    /\ \A n \in DOMAIN channel :
          (channel[n].type = "fill" /\ PageElements[channel[n].xpath].type = "password")
             => channel[n].value = Masked

\* C31 witness: a character key was pressed in the password field and a
\* text typed into it, which the other run typed differently, and the fill
\* event was sent
C31_Witness ==
    /\ \E k \in DOMAIN inputLog :
          /\ PageElements[inputLog[k].target].type = "password"
          /\ OtherText(inputLog[k].target, inputLog[k].value) # inputLog[k].value
    /\ \E n \in DOMAIN channel :
          /\ channel[n].type = "fill"
          /\ PageElements[channel[n].xpath].type = "password"
    /\ \E n \in DOMAIN channel : channel[n].type = "press"

\* C37: an input made in a text field while recording is followed by a
\* fill event of that field, sent after the n fill events sent before the
\* input, whatever happens after the input (the clock allowing the 500 ms).
C37_EveryInputIsFilled ==
    \A f \in TextFields, n \in 0..MaxInputs :
        (/\ inputDebounceTimer.set /\ lastInputElement = f
         /\ Len(Fills) = n
         /\ inputDebounceTimer.due <= MaxClock)
        ~> (\E m \in (n + 1)..Len(Fills) : Fills[m].xpath = f)

\* C38: when a click or a captured key follows an input less than 500 ms
\* later, the fill event of the input is in the trace before the click or
\* press event.
C38_FillBeforeClick ==
    \A p \in DOMAIN channel, k \in DOMAIN inputLog :
        (/\ channel[p].type \in {"click", "press"}
         /\ inputLog[k].at < channel[p].timestamp
         /\ channel[p].timestamp < inputLog[k].at + InputDebounceMs
         /\ \A j \in (k + 1)..Len(inputLog) : inputLog[j].at > channel[p].timestamp)
        => \E q \in 1..(p - 1) :
              /\ channel[q].type = "fill"
              /\ channel[q].xpath = inputLog[k].target
              /\ channel[q].timestamp >= inputLog[k].at

(***************************************************************************)
(* Claims on the waits of the command handlers.                            *)
(***************************************************************************)
\* C32: waitForElement probes the document at most maxWait/interval times,
\* succeeds at the first probe that finds the element, fails with the
\* timeout error after the last probe, and fails at once, without a probe,
\* for a ref that is not in the table.
C32_WaitIsBounded ==
    /\ waiting.probes * DefaultInterval <= DefaultMaxWait
    /\ waiting.result = "ok" => waiting.found
    /\ waiting.result = "timeout" =>
          /\ ~waiting.found
          /\ waiting.probes * DefaultInterval = DefaultMaxWait
    /\ (waiting.ref # <<>> /\ ~waiting.inTable) =>
          /\ waiting.pc = "idle"
          /\ waiting.probes = 0
          /\ waiting.result = "refNotFound"

\* C39: a navigation command whose tab reached 'complete' after the
\* navigation was started does not report 'Tab load timeout', also when the
\* tab was complete before the listener was added; the timeout is reported
\* 30 s after the wait began; once the command has an outcome, no listener
\* and no timer is left.
C39_CompleteMeansSuccess ==
    /\ tabLoad.result = "Tab load timeout" => ~tabLoad.completed
    /\ (tabLoad.pc = "listening" /\ tabLoad.completed) => tabLoad.status = "loading"
    /\ tabLoad.result # "none" => ~tabLoad.listener /\ ~tabLoad.timer.set
    /\ tabLoad.result = "Tab load timeout" => tabLoad.clock >= TabLoadTimeout

\* C40: while the debugger is attached, the map has the entry of the
\* dialog that is open and no entry when none is open; a dialog command
\* that finishes deletes no entry of a dialog other than the one it
\* handled; a dialog command goes on to handle a dialog only with the entry
\* of one, and fails with the no-pending-dialog error otherwise.
C40_EntryIffDialogOpen ==
    /\ debuggerAttached => pendingDialogs = openDialog
    /\ dialogCall.deleted \in {0, dialogCall.pendingDialog}
    /\ dialogCall.pc \in {"sent", "answered"} => dialogCall.pendingDialog # 0
    /\ dialogCall.result = "noPendingDialog" => dialogCall.pendingDialog = 0

====
